---- MODULE Spec2Model ----
(***************************************************************************)
(* localLLM C API (src/custom_files/localllm_capi.cpp): the parallel       *)
(* generation engine localllm_generate_parallel and the single-prompt      *)
(* localllm_generate, run on one llama context.  Token-level model: text   *)
(* is a sequence of one-character strings, the KV memory is a set of rows  *)
(* (seq, pos, tok), and the tensor runtime (decode, sample, tokenize) is   *)
(* an environment that is either free (Spec) or a deterministic function   *)
(* of its inputs (SpecDet).                                                *)
(***************************************************************************)
EXTENDS Integers, Sequences, FiniteSets, TLC

(* ------------------------------ bounds --------------------------------- *)
MaxPrompts == 2
MaxDecoded == 3
MaxMiss == 2

(* --------------------------- program constants ------------------------- *)
CtxHeadroom == 64
BatchCapMax == 512
NPOS == 0 - 1

(* ------------------------------ vocabulary ----------------------------- *)
Tokens == {0, 1, 2}
eos_token == 0
BadByte == 0 - 1

llama_vocab_is_eog(tok) == tok = eos_token

(* the text of a token: 1 and 2 are ordinary tokens, 3 and 4 the tokens    *)
(* that spell a conversation marker, the others the pieces of "<|eot_id|>" *)
(* and "<|end_header_id|>" (lines 390, 415)                                *)
common_token_to_piece(tok) ==
    CASE tok = 1 -> <<" ", "a">>
      [] tok = 2 -> <<"b">>
      [] tok = 3 -> <<"\n", "\n", "U", "s", "e", "r", ":">>
      [] tok = 4 -> <<"\n", "\n", "H", "u", "m", "a", "n", ":">>
      [] tok = 27 -> <<"<">>
      [] tok = 91 -> <<"|">>
      [] tok = 68 -> <<"e">>
      [] tok = 354 -> <<"o", "t">>
      [] tok = 851 -> <<"_", "i", "d">>
      [] tok = 29 -> <<">">>
      [] tok = 408 -> <<"e", "n", "d">>
      [] tok = 8932 -> <<"_", "h", "e", "a", "d", "e", "r">>
      [] OTHER -> <<>>

(* lines 391 and 416: the token sequences of "<|eot_id|>" and             *)
(* "<|end_header_id|>"                                                     *)
eot_sequence == <<27, 91, 68, 354, 851, 91, 29>>
end_header_sequence == <<27, 91, 408, 8932, 851, 91, 29>>

(* The prompt texts of the model: one byte per token; BadByte is a byte    *)
(* the vocabulary cannot tokenise.                                         *)
PromptTexts ==
    { <<>>, <<1>>, <<1, 2>>, <<1, 2, 1>>, <<BadByte>> }

(* llama_tokenize: the token count, negative when the text is refused.     *)
llama_tokenize(text) ==
    IF \E i \in 1..Len(text) : text[i] = BadByte THEN 0 - 1 ELSE Len(text)

TokenizeThrows(text) == llama_tokenize(text) < 0

helper_tokenize(text) == SubSeq(text, 1, llama_tokenize(text))

(* ------------------------------ strings -------------------------------- *)
Min(a, b) == IF a < b THEN a ELSE b
Max(a, b) == IF a > b THEN a ELSE b

(* std::string::find(marker, pos): 0-based index or NPOS *)
StrFind(text, marker, pos) ==
    LET hits == { i \in pos..(Len(text) - Len(marker)) :
                    SubSeq(text, i + 1, i + Len(marker)) = marker }
    IN IF hits = {} THEN NPOS ELSE CHOOSE i \in hits : \A j \in hits : i <= j

(* std::string::erase(pos, n) *)
StrErase(text, pos, n) ==
    SubSeq(text, 1, pos) \o SubSeq(text, pos + n + 1, Len(text))

EndsWith(text, tail) ==
    /\ Len(text) >= Len(tail)
    /\ SubSeq(text, Len(text) - Len(tail) + 1, Len(text)) = tail

stop_markers ==
    << <<"<", "|", "i", "m", "_", "e", "n", "d", "|", ">">>,
       <<"<", "|", "i", "m", "_", "s", "t", "a", "r", "t", "|", ">">>,
       <<"<", "e", "n", "d", "_", "o", "f", "_", "t", "u", "r", "n", ">">>,
       <<"<", "s", "t", "a", "r", "t", "_", "o", "f", "_", "t", "u", "r", "n", ">">>,
       <<"<", "/", "s", ">">>,
       <<"<", "s", ">">>,
       <<"<", "|", "e", "n", "d", "o", "f", "t", "e", "x", "t", "|", ">">>,
       <<"<", "|", "e", "n", "d", "|", ">">>,
       <<"<", "|", "s", "t", "a", "r", "t", "|", ">">>,
       <<"<", "e", "o", "s", ">">>,
       <<"<", "b", "o", "s", ">">>,
       <<"\n", "<", "|", "i", "m", "_", "e", "n", "d", "|", ">">>,
       <<"\n", "<", "e", "n", "d", "_", "o", "f", "_", "t", "u", "r", "n", ">">>,
       <<"\n", "<", "/", "s", ">">> >>

UserMarker == <<"\n", "\n", "U", "s", "e", "r", ":">>
HumanMarker == <<"\n", "\n", "H", "u", "m", "a", "n", ":">>

(* characters with code below 32 (the model's alphabet has none above 126) *)
ControlChars == {"\n", "\t", "\r"}
SpaceChars == {" ", "\n", "\t", "\r"}

(* the inner while of clean_response_text: erase every occurrence of one   *)
(* marker, scanning on from the position of the last erase                 *)
RECURSIVE EraseMarker(_, _, _)
EraseMarker(text, marker, pos) ==
    LET p == StrFind(text, marker, pos)
    IN IF p = NPOS THEN text
       ELSE EraseMarker(StrErase(text, p, Len(marker)), marker, p)

(* one cleanup round: every marker in list order; r.found as found_marker  *)
RECURSIVE CleanupRound(_, _)
CleanupRound(r, k) ==
    IF k > Len(stop_markers) THEN r
    ELSE LET t == EraseMarker(r.text, stop_markers[k], 0)
         IN CleanupRound([text |-> t, found |-> r.found \/ t # r.text], k + 1)

CleanupOneRound(text, cleanup_rounds) ==
    CleanupRound([text |-> text, found |-> FALSE], 1).text

(* lines 577-589: the passes over the marker list, at most five *)
RECURSIVE CleanupRounds(_, _)
CleanupRounds(text, cleanup_rounds) ==
    IF cleanup_rounds >= 5 THEN text
    ELSE LET r == CleanupRound([text |-> text, found |-> FALSE], 1)
         IN IF r.found THEN CleanupRounds(r.text, cleanup_rounds + 1) ELSE r.text

RECURSIVE TrimFrontJunk(_)
TrimFrontJunk(text) ==
    IF text # <<>> /\ (Head(text) = "?" \/ Head(text) \in ControlChars)
    THEN TrimFrontJunk(Tail(text)) ELSE text

RECURSIVE TrimBackSpace(_)
TrimBackSpace(text) ==
    IF text # <<>> /\ text[Len(text)] \in SpaceChars
    THEN TrimBackSpace(SubSeq(text, 1, Len(text) - 1)) ELSE text

RECURSIVE TrimFrontSpace(_)
TrimFrontSpace(text) ==
    IF text # <<>> /\ Head(text) \in SpaceChars
    THEN TrimFrontSpace(Tail(text)) ELSE text

clean_response_text(text) ==
    LET t1 == CleanupRounds(text, 0)
        t2 == TrimFrontSpace(TrimBackSpace(TrimFrontJunk(t1)))
        pos == StrFind(t2, UserMarker, 0)
    IN IF pos # NPOS THEN SubSeq(t2, 1, pos) ELSE t2

ErrorText(msg) == <<"[ERROR] ", msg>>

(* ------------------------------ state ---------------------------------- *)
VARIABLES
    cfg,          \* the context: n_ctx, n_batch, n_seq_max
    rt,           \* behaviour of the tensor runtime
    inp,          \* the caller's arguments: prompts, max_tokens, seed
    kv,           \* KV memory of the context: rows [seq, pos, tok]
    logits,       \* output rows of the last llama_decode (NoLogit: none)
    pc,           \* position of the call in progress ("idle": none)
    calls,        \* number of top-level calls started on the context
    log,          \* outcome of every finished call, oldest first
    call,         \* arguments of the call in progress
    prompt_tokens_all, shared_prefix_len, prefix_ready, sparams,
    slots, next_prompt_idx, active_clients, slots_pending_reassign,
    final_responses, dynamic_cache_miss,
    batch, start, local_cap, batch_slots, decode_success,
    cur,          \* loop cursors and the return point of assign_next_prompt
    gen,          \* locals of localllm_generate
    obs           \* observations of the run (never read by the engine)

envVars == <<cfg, rt, inp>>
ctxVars == <<kv, logits>>
callVars == <<pc, calls, log, call>>
prepVars == <<prompt_tokens_all, shared_prefix_len, prefix_ready, sparams>>
slotVars == <<slots, next_prompt_idx, active_clients, slots_pending_reassign,
              final_responses>>
subVars == <<batch, start, local_cap, batch_slots, decode_success,
             dynamic_cache_miss>>
vars == <<envVars, ctxVars, callVars, prepVars, slotVars, subVars, cur, gen, obs>>

(* ------------------------------ runtime -------------------------------- *)
NoTok == 0 - 1
NoLogit == 0 - 1
ThrowTok == 0 - 2

RECURSIVE SumRows(_)
SumRows(rows) ==
    IF rows = {} THEN 0
    ELSE LET r == CHOOSE x \in rows : TRUE
         IN r.tok * (r.pos + 1) + SumRows(rows \ {r})

RECURSIVE SumSeq(_)
SumSeq(s) == IF s = <<>> THEN 0 ELSE Head(s) + SumSeq(Tail(s))

(* llama_kv_self_clear / seq_rm(seq, 0, -1) / seq_cp(src, dst, -1, -1) *)
llama_kv_self_clear == {}
llama_kv_self_seq_rm(mem, seq) == { r \in mem : r.seq # seq }
llama_kv_self_seq_cp(mem, src, dst) ==
    mem \cup { [seq |-> dst, pos |-> r.pos, tok |-> r.tok] : r \in { x \in mem : x.seq = src } }

SeqRows(mem, seq) == { r \in mem : r.seq = seq }
SeqTail(mem, seq) ==
    IF SeqRows(mem, seq) = {} THEN 0
    ELSE 1 + (CHOOSE p \in { r.pos : r \in SeqRows(mem, seq) } :
                 \A r \in SeqRows(mem, seq) : r.pos <= p)

(* rows a successful llama_decode of the window leaves in the KV memory:  *)
(* the decode takes free cells, a cell already holding the same sequence  *)
(* and position stays and is attended with the new one                    *)
KvStore(mem, window) ==
    mem \cup { [seq |-> window[j].seq, pos |-> window[j].pos, tok |-> window[j].tok] :
                 j \in 1..Len(window) }

(* the logits row of a token: a function of the rows its sequence sees *)
LogitOf(mem, seq, pos) == SumRows({ r \in mem : r.seq = seq /\ r.pos <= pos })

WindowLogits(mem, window) ==
    [ j \in 1..Len(window) |->
        IF window[j].logits THEN LogitOf(mem, window[j].seq, window[j].pos)
        ELSE NoLogit ]

(* return codes of llama_decode for a window: 0, >0 (no KV slot), <0;    *)
(* the window limit holds in the first rt.winCalls calls (0: in all)      *)
DetCode(window) ==
    IF Len(window) = 0 THEN 0 - 1
    ELSE IF Len(window) > rt.maxWin /\ (rt.winCalls = 0 \/ calls <= rt.winCalls) THEN 1
    ELSE IF \E j \in 1..Len(window) : window[j].tok = rt.badTok
         THEN (IF rt.badKind = "soft" THEN 1
               ELSE IF rt.badKind = "fatal" THEN 0 - 1 ELSE 0)
    ELSE 0

DecodeCodes(window) ==
    IF rt.mode = "free" THEN {0, 1, 0 - 1} ELSE { DetCode(window) }

(* common_sampler: the seed it was built from and the tokens it accepted *)
NullSampler == [alive |-> FALSE, seed |-> 0, hist |-> <<>>]
common_sampler_init(seed) == [alive |-> TRUE, seed |-> seed, hist |-> <<>>]
common_sampler_accept(smpl, tok) == [smpl EXCEPT !.hist = Append(@, tok)]

SamplerInitOk == IF rt.mode = "free" THEN BOOLEAN ELSE { rt.smplOk }

DetSample(smpl, logit) ==
    LET t == (logit + smpl.seed + Len(smpl.hist) + SumSeq(smpl.hist)) % Cardinality(Tokens)
    IN IF rt.badKind = "throw" /\ t = rt.badTok THEN ThrowTok ELSE t

FreeSamples == {eos_token, 1, ThrowTok}

(* the scripted sampler: the tokens of rt.script one after another, then  *)
(* the end-of-sequence token                                               *)
ScriptSample(smpl) ==
    IF Len(smpl.hist) < Len(rt.script) THEN rt.script[Len(smpl.hist) + 1] ELSE eos_token

(* common_sampler_sample on a logits row: a token, or ThrowTok when it raises *)
SampleOutcomes(smpl, logit) ==
    IF rt.mode = "free" THEN FreeSamples
    ELSE IF rt.mode = "script" THEN { ScriptSample(smpl) }
    ELSE { DetSample(smpl, logit) }

(* time(nullptr) as a seed *)
ClockSeeds == {0, 1}
EffectiveSeeds(seed) == IF seed < 0 THEN ClockSeeds ELSE {seed}

(* ------------------------------ inputs --------------------------------- *)
Ctx(b, q) == [n_ctx |-> CtxHeadroom + 2, n_batch |-> b, n_seq_max |-> q]

PromptVectors == UNION { [1..n -> PromptTexts] : n \in 1..MaxPrompts }

(* what the caller does with the context: the calls it makes, in order.   *)
(* "gen": localllm_generate on the tokens of prompts[0]; "par":            *)
(* localllm_generate_parallel on the prompts; "par0": the same with the    *)
(* prefix analyser forced to 0; "parInv": the same with n_prompts = 0      *)
Plans ==
    { <<"par", "gen", "par">>, <<"par", "par0">>, <<"gen", "parInv">>, <<"gen", "gen">> }

PlansFree == { <<"par">> }
PlansFreeSingle == { <<"par0">>, <<"gen", "par">>, <<"gen", "parInv">> }

InpSet ==
    { [prompts |-> p, max_tokens |-> m, seed |-> 0, plan |-> pl] :
        p \in PromptVectors, m \in {0, 2}, pl \in Plans }
    \cup
    { [prompts |-> p, max_tokens |-> 2, seed |-> 0 - 1, plan |-> pl] :
        p \in PromptVectors, pl \in Plans }

(* under the free runtime generate_parallel runs on every prompt vector,  *)
(* and on the vectors of one prompt also without prefix sharing and after *)
(* a generate call (a vector with an empty prompt has no shared prefix);  *)
(* the one-token prompt, when there is one, is the first of its vector;   *)
(* one vector has a prompt more than the slots can hold at a time         *)
InpSetFree ==
    { [prompts |-> p, max_tokens |-> 1, seed |-> 0, plan |-> pl] :
        p \in { v \in PromptVectors : \A i \in 2..Len(v) : v[i] # <<1>> }, pl \in PlansFree }
    \cup
    { [prompts |-> p, max_tokens |-> 1, seed |-> 0, plan |-> pl] :
        p \in [1..1 -> PromptTexts], pl \in PlansFreeSingle }
    \cup
    { [prompts |-> p, max_tokens |-> 0, seed |-> 0, plan |-> <<"par">>] :
        p \in [1..1 -> PromptTexts] }
    \cup
    { [prompts |-> <<<<1>>, <<1>>, <<1>>>>, max_tokens |-> 1, seed |-> 0, plan |-> <<"par0">>] }

Rt(mode, w, ok, t, k) ==
    [mode |-> mode, badTok |-> t, badKind |-> k, maxWin |-> w, smplOk |-> ok,
     winCalls |-> 0, script |-> <<>>]

(* the free runtime: any return code, any sampled token, any init result *)
EnvFree ==
    { <<Ctx(2, q), Rt("free", BatchCapMax, TRUE, NoTok, "none")>> : q \in {1, 2} }

(* the free runtime behind a context of n_batch 4: the cap can halve twice *)
EnvFreeCap4 == { <<Ctx(4, 1), Rt("free", BatchCapMax, TRUE, NoTok, "none")>> }

(* deterministic runtimes: windows above maxWin tokens are refused with a  *)
(* positive code, a window holding badTok is refused (soft: positive code, *)
(* fatal: negative code), sampling badTok raises (throw), and sampler      *)
(* construction succeeds or not as smplOk says                             *)
EnvDet ==
    { <<Ctx(bw[1], q), Rt("det", bw[2], TRUE, NoTok, "none")>> :
        q \in {1, 2}, bw \in { <<1, BatchCapMax>>, <<2, BatchCapMax>>, <<2, 1>>, <<2, 0>> } }
    \cup
    { <<Ctx(2, q), Rt("det", BatchCapMax, FALSE, NoTok, "none")>> : q \in {1, 2} }
    \cup
    { <<Ctx(2, q), Rt("det", BatchCapMax, TRUE, t, k)>> :
        q \in {1, 2}, t \in {1, 2}, k \in {"soft", "fatal", "throw"} }
    \cup
    { <<Ctx(2, q), [Rt("det", 1, TRUE, NoTok, "none") EXCEPT !.winCalls = 1]>> : q \in {1, 2} }

(* scripted runtimes: every sampler emits the script: a tracked control    *)
(* sequence, alone or after an ordinary token, or six ordinary tokens and then a token that spells a         *)
(* conversation marker; every window is accepted, or, with n_batch 3 or 4, *)
(* the windows above maxWin tokens are refused with a positive code; or as *)
(* many ordinary tokens as the context has positions                       *)
LongScript == [ j \in 1..(CtxHeadroom + 2) |-> 1 ]

(* the tokens of "<|end|>" with itself inside, depth times over *)
NestedEnd(depth) ==
    [ j \in 1..(5 * depth) |->
        IF j <= 3 * depth THEN <<27, 91, 408>>[((j - 1) % 3) + 1]
        ELSE <<91, 29>>[((j - 3 * depth - 1) % 2) + 1] ]

Scripts ==
    { eot_sequence, end_header_sequence, <<1>> \o eot_sequence,
      <<1, 1, 1, 1, 1, 1, 3>>, <<1, 1, 1, 1, 1, 1, 4>> }

EnvScript ==
    { <<Ctx(2, q), [Rt("script", BatchCapMax, TRUE, NoTok, "none") EXCEPT !.script = sc]>> :
        q \in {1, 2}, sc \in Scripts }
    \cup
    { <<Ctx(b, q), [Rt("script", w, TRUE, NoTok, "none") EXCEPT !.script = <<1, 1, 1, 1, 1, 1, 3>>]>> :
        b \in {3, 4}, q \in {1, 2}, w \in {0, 1} }
    \cup
    { <<Ctx(2, 1), [Rt("script", BatchCapMax, TRUE, NoTok, "none") EXCEPT !.script = sc]>> :
        sc \in { LongScript, NestedEnd(2), NestedEnd(6) } }

InpSetScript ==
    { [prompts |-> p, max_tokens |-> m, seed |-> 0, plan |-> pl] :
        p \in UNION { [1..n -> { <<1>>, <<1, 2>>, <<1, 1>> }] : n \in 1..MaxPrompts },
        m \in {0, 8},
        pl \in { <<"gen", "par">>, <<"par0", "parInv">> } }
    \cup
    { [prompts |-> <<<<1>>>>, max_tokens |-> 100, seed |-> 0, plan |-> <<"par">>] }

(* ------------------------------ engine --------------------------------- *)
seq_capacity == Max(1, IF cfg.n_seq_max > 0 THEN cfg.n_seq_max ELSE 1)
batch_cap_init == Max(1, Min(BatchCapMax, cfg.n_batch))
n_ctx == cfg.n_ctx
n_prompts == call.n_prompts

NullTokens == 0 - 1

EmptySlot ==
    [active |-> FALSE, finished |-> FALSE, failed |-> FALSE, seq_id |-> 0,
     global_index |-> 0 - 1, full_tokens |-> NullTokens, suffix_tokens |-> <<>>,
     prefix_len |-> 0, n_past |-> 0, n_prompt |-> 0, n_decoded |-> 0,
     i_batch |-> 0 - 1, sampled |-> 0, smpl |-> NullSampler,
     response |-> <<>>, error_msg |-> ""]

ReleaseSlotStaysActive(slot) ==
    [EmptySlot EXCEPT !.active = slot.active, !.global_index = slot.global_index]

ReleaseSlotKeepsSampler(slot) == [EmptySlot EXCEPT !.smpl = slot.smpl]

(* lines 608-628: the sampler freed, every field back to its initial value *)
release_slot(slot) == EmptySlot

(* *slot.full_tokens *)
FullTokens(slot) ==
    IF slot.full_tokens = NullTokens THEN <<>> ELSE prompt_tokens_all[slot.full_tokens + 1]

Last(s) == s[Len(s)]

CommonLenIsLimit(a, b, limit) == limit

(* the while loop of the pre-pass: tokens of b agreeing with a, up to limit *)
CommonLen(a, b, limit) ==
    LET ks == { k \in 0..limit : \A j \in 1..k : b[j] = a[j] }
    IN CHOOSE k \in ks : \A m \in ks : m <= k

RECURSIVE PrefixScan(_, _, _)
PrefixScan(toks, i, acc) ==
    IF i > Len(toks) THEN acc
    ELSE IF i = 1 THEN PrefixScan(toks, 2, Len(toks[1]))
    ELSE PrefixScan(toks, i + 1, CommonLen(toks[1], toks[i], Min(acc, Len(toks[i]))))

SharedPrefixLen(toks) == PrefixScan(toks, 1, 0)

(* common_batch_add over a token list under one seq-id, logits on the last *)
BatchOver(tokens, pos0, seq) ==
    [ j \in 1..Len(tokens) |->
        [tok |-> tokens[j], pos |-> pos0 + j - 1, seq |-> seq, logits |-> j = Len(tokens)] ]

WindowFromFirst == SubSeq(batch, 1, Min(local_cap, Len(batch) - start))

(* lines 519-528, 657-666, 853-862: the view of the batch that is decoded *)
Window == SubSeq(batch, start + 1, start + Min(local_cap, Len(batch) - start))

NoCur ==
    [fill_i |-> 0, after_fill |-> "while", slot_idx |-> 0, after_assign |-> "fill",
     r_i |-> 0, s_j |-> 0, win_n |-> 0]
NoGen == [smpl |-> NullSampler, generated_text |-> <<>>, recent_tokens |-> <<>>, i |-> 0]
NoCall == [op |-> "none", n_prompts |-> 0, share |-> TRUE, kv_in |-> {}]
NoLast == [slot_idx |-> 0 - 1, g |-> 0 - 1, tok |-> NoTok, response |-> <<>>]
NoObs == [writes |-> <<>>, failed |-> {}, gen_fail |-> "none", slot_fed |-> {},
          soft_suffix |-> {}, prefix_fail |-> "none", steps |-> <<>>, last |-> NoLast,
          tracked |-> {}, marker_stop |-> {}, refused |-> FALSE,
          smpl_left |-> {}, acc |-> <<>>,
          ret |-> 0, absorbed |-> 0]

LocalsReset ==
    /\ prompt_tokens_all' = <<>>
    /\ shared_prefix_len' = 0
    /\ prefix_ready' = FALSE
    /\ sparams' = [seed |-> 0]
    /\ slots' = <<>>
    /\ next_prompt_idx' = 0
    /\ active_clients' = 0
    /\ slots_pending_reassign' = <<>>
    /\ final_responses' = <<>>
    /\ dynamic_cache_miss' = 0
    /\ batch' = <<>>
    /\ start' = 0
    /\ local_cap' = 0
    /\ batch_slots' = <<>>
    /\ decode_success' = TRUE
    /\ cur' = NoCur
    /\ gen' = NoGen

InitWith(envs, inps) ==
    /\ \E e \in envs : cfg = e[1] /\ rt = e[2]
    /\ inp \in inps
    /\ kv = {}
    /\ logits = <<>>
    /\ pc = "idle"
    /\ calls = 0
    /\ log = <<>>
    /\ call = NoCall
    /\ prompt_tokens_all = <<>>
    /\ shared_prefix_len = 0
    /\ prefix_ready = FALSE
    /\ sparams = [seed |-> 0]
    /\ slots = <<>>
    /\ next_prompt_idx = 0
    /\ active_clients = 0
    /\ slots_pending_reassign = <<>>
    /\ final_responses = <<>>
    /\ dynamic_cache_miss = 0
    /\ batch = <<>>
    /\ start = 0
    /\ local_cap = 0
    /\ batch_slots = <<>>
    /\ decode_success = TRUE
    /\ cur = NoCur
    /\ gen = NoGen
    /\ obs = NoObs

Init == InitWith(EnvFree, InpSetFree)
InitDet == InitWith(EnvDet, InpSet)
InitScript == InitWith(EnvScript, InpSetScript)
InitCap4 == InitWith(EnvFreeCap4, InpSetFree)

(* one finished call: its arguments, what the caller gets back (status,   *)
(* error, results) and what was observed of the run                        *)
LogEntry(c, status, error, results, seed, o) ==
    [op |-> c.op, n_prompts |-> c.n_prompts, share |-> c.share, kv_in |-> c.kv_in,
     status |-> status, error |-> error, results |-> results,
     seed |-> seed, prefix_ready |-> prefix_ready,
     dynamic_cache_miss |-> dynamic_cache_miss, obs |-> o]

(* the slots as the function leaves them: released by the loop of lines    *)
(* 953-955 when the cleanup is reached, as they are when an exception      *)
(* leads past it to the handler of lines 981-989                           *)
ExitSlots ==
    IF pc = "cleanup" THEN [ k \in DOMAIN slots |-> release_slot(slots[k]) ] ELSE slots

(* the call ends *)
Return(status, error, results) ==
    /\ log' = Append(log, LogEntry(call, status, error, results,
                                   IF call.op = "generate" THEN gen.smpl.seed ELSE sparams.seed,
                                   [obs EXCEPT !.last = NoLast,
                                               !.smpl_left = { k \in DOMAIN ExitSlots :
                                                                 ExitSlots[k].smpl.alive }]))
    /\ obs' = NoObs
    /\ pc' = "idle"
    /\ call' = NoCall

(* localllm_generate_parallel, lines 456-516: argument check, pre-pass,    *)
(* clear, prefix batch.  share = FALSE is the engine with the prefix       *)
(* analyser forced to 0.                                                   *)
EntryKvKept(mem) == mem

(* line 506: the KV memory after the clear at entry *)
EntryKv(mem) == llama_kv_self_clear

(* the rows of the current batch that llama_decode has accepted: how often *)
(* each was in an accepted window; ret: the last code llama_decode         *)
(* returned in the submission                                              *)
ObsAccept(o, window) ==
    [o EXCEPT !.acc = [ j \in 1..Len(batch) |->
                          IF \E i \in 1..Len(window) : window[i] = batch[j]
                          THEN o.acc[j] + 1 ELSE o.acc[j] ],
              !.ret = 0]

(* llama_decode answered a window of more than one token with a positive   *)
(* code                                                                    *)
ObsRefuse(o, ret) ==
    [o EXCEPT !.refused = @ \/ (ret > 0 /\ Len(Window) > 1), !.ret = ret]

(* a refusal that is retried at half the cap: counted per submission *)
ObsAbsorb(o, ret) == [ObsRefuse(o, ret) EXCEPT !.absorbed = @ + 1]

HalvedCapKept(cap) == cap

(* lines 533, 672, 868: local_cap = max(1, local_cap / 2) *)
HalvedCap(cap) == Max(1, cap \div 2)

(* dynamic_cache_miss++, counted up to MaxMiss *)
CountMiss(n) == IF n < MaxMiss THEN n + 1 ELSE n

AbsorbableNever(ret, cap) == FALSE
AbsorbableAtAnyCap(ret, cap) == ret > 0

(* lines 532, 671, 867: a positive code above chunk size 1 is absorbed by  *)
(* halving the chunk size                                                  *)
Absorbable(ret, cap) == ret > 0 /\ cap > 1

InvalidArgumentsNegativeOnly(n) == n < 0

(* line 464: the argument check; a null handle or pointer takes the same   *)
(* branch as a prompt count that is not positive                           *)
InvalidArguments(n) == n <= 0

NextOp == IF calls < Len(inp.plan) THEN inp.plan[calls + 1] ELSE "none"

CallParallel(n, share) ==
    /\ pc = "idle"
    /\ NextOp = (IF n <= 0 THEN "parInv" ELSE IF share THEN "par" ELSE "par0")
    /\ calls' = calls + 1
    /\ UNCHANGED envVars
    /\ IF InvalidArguments(n)
       THEN /\ log' = Append(log, LogEntry(
                               [op |-> "parallel", n_prompts |-> n, share |-> share, kv_in |-> kv],
                               "Error",
                               "Invalid parameters: null pointers or invalid prompt count",
                               <<>>, 0, NoObs))
            /\ UNCHANGED <<pc, call, ctxVars, prepVars, slotVars, subVars, cur, gen, obs>>
       ELSE IF \E i \in 1..n : TokenizeThrows(inp.prompts[i])
       THEN /\ log' = Append(log, LogEntry(
                               [op |-> "parallel", n_prompts |-> n, share |-> share, kv_in |-> kv],
                               "Exception", "Tokenization failed in helper.",
                               <<>>, 0, NoObs))
            /\ UNCHANGED <<pc, call, ctxVars, prepVars, slotVars, subVars, cur, gen, obs>>
       ELSE LET toks == [ i \in 1..n |-> helper_tokenize(inp.prompts[i]) ]
                spl == IF share THEN SharedPrefixLen(toks) ELSE 0
            IN /\ call' = [op |-> "parallel", n_prompts |-> n, share |-> share, kv_in |-> kv]
               /\ prompt_tokens_all' = toks
               /\ shared_prefix_len' = spl
               /\ final_responses' = [ i \in 1..n |-> <<>> ]
               /\ kv' = EntryKv(kv)
               /\ prefix_ready' = FALSE
               /\ dynamic_cache_miss' = 0
               /\ obs' = [NoObs EXCEPT !.acc = [ j \in 1..spl |-> 0 ],
                                        !.writes = [ i \in 1..n |-> 0 ],
                                        !.steps = [ i \in 1..n |-> 0 ]]
               /\ IF spl > 0
                  THEN /\ batch' = BatchOver(SubSeq(toks[1], 1, spl), 0, 0)
                       /\ local_cap' = batch_cap_init
                       /\ start' = 0
                       /\ pc' = "prefix"
                  ELSE /\ pc' = "setup"
                       /\ UNCHANGED <<batch, local_cap, start>>
               /\ UNCHANGED <<logits, log, sparams, slots, next_prompt_idx, active_clients,
                              slots_pending_reassign, batch_slots, decode_success, cur, gen>>

PrefixFailKvKept(mem) == mem

(* lines 544-546: the KV memory after a prefix decode that failed *)
PrefixFailKv(mem) == llama_kv_self_clear

(* lines 518-549: one llama_decode of the prefix loop *)
PrefixStep ==
    /\ pc = "prefix"
    /\ \E ret \in DecodeCodes(Window) :
         LET n_tokens == Len(Window)
         IN IF ret = 0
            THEN /\ kv' = KvStore(kv, Window)
                 /\ logits' = WindowLogits(kv', Window)
                 /\ obs' = ObsAccept(obs, Window)
                 /\ IF start + n_tokens >= Len(batch)
                    THEN /\ prefix_ready' = TRUE
                         /\ pc' = "setup"
                         /\ batch' = <<>>
                         /\ start' = 0
                    ELSE /\ start' = start + n_tokens
                         /\ UNCHANGED <<prefix_ready, pc, batch>>
                 /\ UNCHANGED <<local_cap, dynamic_cache_miss>>
            ELSE IF Absorbable(ret, local_cap)
            THEN /\ local_cap' = HalvedCap(local_cap)
                 /\ dynamic_cache_miss' = CountMiss(dynamic_cache_miss)
                 /\ obs' = ObsAbsorb(obs, ret)
                 /\ UNCHANGED <<kv, logits, prefix_ready, pc, batch, start>>
            ELSE /\ kv' = PrefixFailKv(kv)
                 /\ pc' = "setup"
                 /\ batch' = <<>>
                 /\ start' = 0
                 /\ obs' = [ObsRefuse(obs, ret) EXCEPT !.prefix_fail = IF ret > 0 THEN "soft" ELSE "fatal"]
                 /\ UNCHANGED <<logits, prefix_ready, local_cap, dynamic_cache_miss>>
    /\ UNCHANGED <<envVars, calls, log, call, prompt_tokens_all, shared_prefix_len, sparams,
                   slotVars, batch_slots, decode_success, cur, gen>>

(* lines 630-696 and 821: sampling parameters, the slot table, first fill *)
Setup ==
    /\ pc = "setup"
    /\ \E seed \in EffectiveSeeds(inp.seed) : sparams' = [seed |-> seed]
    /\ slots' = [ i \in 0..(seq_capacity - 1) |-> EmptySlot ]
    /\ next_prompt_idx' = 0
    /\ active_clients' = 0
    /\ slots_pending_reassign' = <<>>
    /\ cur' = [NoCur EXCEPT !.fill_i = 0, !.after_fill = "while"]
    /\ pc' = "fill"
    /\ UNCHANGED <<envVars, ctxVars, calls, log, call, prompt_tokens_all, shared_prefix_len,
                   prefix_ready, final_responses, subVars, gen, obs>>

(* final_responses[idx] = text, and the observation of the write *)
StoreResult(fr, idx, text) == [fr EXCEPT ![idx + 1] = text]
ObsWrite(o, idx) == [o EXCEPT !.writes[idx + 1] = @ + 1]
ObsFail(o, idx, msg) == [ObsWrite(o, idx) EXCEPT !.failed = @ \cup {<<idx, msg>>}]

(* return of assign_next_prompt to its call site *)
AssignReturn ==
    IF cur.after_assign = "fill"
    THEN /\ pc' = "fill"
         /\ cur' = [cur EXCEPT !.fill_i = cur.slot_idx + 1]
    ELSE /\ pc' = "reassign"
         /\ cur' = [cur EXCEPT !.r_i = @ + 1]

(* lines 812-818: ensure_slots_filled, up to its next assign_next_prompt *)
FillStep ==
    /\ pc = "fill"
    /\ LET cand == { i \in cur.fill_i..(seq_capacity - 1) : ~slots[i].active }
       IN IF next_prompt_idx < n_prompts /\ cand # {}
          THEN /\ pc' = "assign"
               /\ cur' = [cur EXCEPT !.slot_idx = CHOOSE i \in cand : \A j \in cand : i <= j,
                                     !.after_assign = "fill"]
          ELSE /\ pc' = cur.after_fill
               /\ UNCHANGED cur
    /\ UNCHANGED <<envVars, ctxVars, calls, log, call, prepVars, slotVars, subVars, gen, obs>>

(* line 823: while (active_clients > 0) *)
WhileCheck ==
    /\ pc = "while"
    /\ IF active_clients > 0
       THEN /\ pc' = "fill"
            /\ cur' = [cur EXCEPT !.fill_i = 0, !.after_fill = "assemble"]
       ELSE /\ pc' = "cleanup"
            /\ UNCHANGED cur
    /\ UNCHANGED <<envVars, ctxVars, calls, log, call, prepVars, slotVars, subVars, gen, obs>>

AssignedSlotSeqOfIndex(slot_idx, g) ==
    LET toks == prompt_tokens_all[g + 1]
        np == Len(toks)
        pl == IF prefix_ready THEN Min(shared_prefix_len, np) ELSE 0
    IN [EmptySlot EXCEPT !.seq_id = slot_idx,
                         !.global_index = g,
                         !.full_tokens = g,
                         !.n_prompt = np,
                         !.prefix_len = pl,
                         !.suffix_tokens = IF np > pl THEN SubSeq(toks, pl + 1, np) ELSE <<>>,
                         !.n_past = pl]

AssignedSlotPrefixAlways(slot_idx, g) ==
    LET toks == prompt_tokens_all[g + 1]
        np == Len(toks)
        pl == Min(shared_prefix_len, np)
    IN [EmptySlot EXCEPT !.seq_id = slot_idx + 1,
                         !.global_index = g,
                         !.full_tokens = g,
                         !.n_prompt = np,
                         !.prefix_len = pl,
                         !.suffix_tokens = IF np > pl THEN SubSeq(toks, pl + 1, np) ELSE <<>>,
                         !.n_past = pl]

(* the slot as lines 749-763 set it up for prompt g *)
AssignedSlot(slot_idx, g) ==
    LET toks == prompt_tokens_all[g + 1]
        np == Len(toks)
        pl == IF prefix_ready THEN Min(shared_prefix_len, np) ELSE 0
    IN [EmptySlot EXCEPT !.seq_id = slot_idx + 1,
                         !.global_index = g,
                         !.full_tokens = g,
                         !.n_prompt = np,
                         !.prefix_len = pl,
                         !.suffix_tokens = IF np > pl THEN SubSeq(toks, pl + 1, np) ELSE <<>>,
                         !.n_past = pl]

SlotSamplerPerSlot(slot_idx) == common_sampler_init(sparams.seed + slot_idx)

(* line 765: the sampler of a slot, built from the call's sampling parameters *)
SlotSampler(slot_idx) == common_sampler_init(sparams.seed)

ContextOverflowNoHeadroom(n_prompt) == n_prompt > n_ctx

(* line 773: the context-overflow guard *)
ContextOverflow(n_prompt) == n_prompt > n_ctx - CtxHeadroom

PrefixCopyNone(mem, slot) == mem

(* lines 789-791: the shared prefix cloned under the slot's seq-id *)
PrefixCopy(mem, slot) ==
    IF prefix_ready /\ slot.prefix_len > 0
    THEN llama_kv_self_seq_cp(mem, 0, slot.seq_id)
    ELSE mem

ActivatedSlotNotMarked(slot) ==
    [slot EXCEPT !.n_past = slot.n_prompt,
                 !.sampled = IF FullTokens(slot) = <<>> THEN 0 ELSE Last(FullTokens(slot))]

(* the slot on a successful return of assign_next_prompt, lines 687, 802-804 *)
ActivatedSlot(slot) ==
    [slot EXCEPT !.n_past = slot.n_prompt,
                 !.sampled = IF FullTokens(slot) = <<>> THEN 0 ELSE Last(FullTokens(slot)),
                 !.active = TRUE]

(* lines 743-810: one round of the while loop of assign_next_prompt, up to *)
(* the first llama_decode of the suffix                                    *)
AssignStep ==
    /\ pc = "assign"
    /\ LET k == cur.slot_idx
       IN IF next_prompt_idx >= n_prompts
          THEN /\ slots' = [slots EXCEPT ![k] = release_slot(slots[k])]
               /\ AssignReturn
               /\ UNCHANGED <<next_prompt_idx, active_clients, final_responses, kv,
                              batch, start, local_cap, obs>>
          ELSE LET g == next_prompt_idx
                   s0 == AssignedSlot(k, g)
                   Reject(msg) ==
                       /\ final_responses' = StoreResult(final_responses, s0.global_index, ErrorText(msg))
                       /\ obs' = ObsFail(obs, s0.global_index, msg)
                       /\ slots' = [slots EXCEPT ![k] = release_slot(s0)]
                       /\ UNCHANGED <<pc, cur, active_clients, kv, batch, start, local_cap>>
               IN /\ next_prompt_idx' = g + 1
                  /\ \E ok \in SamplerInitOk :
                       IF ~ok THEN Reject("Failed to initialize sampler")
                       ELSE IF ContextOverflow(s0.n_prompt)
                       THEN Reject("Prompt too long for context size")
                       ELSE IF s0.n_prompt = 0
                       THEN Reject("Prompt resulted in zero tokens")
                       ELSE LET s1 == [s0 EXCEPT !.smpl = SlotSampler(k)]
                            IN /\ kv' = PrefixCopy(kv, s1)
                               /\ obs' = [obs EXCEPT !.slot_fed = @ \cup {s1.global_index},
                                                  !.acc = [ j \in 1..Len(s1.suffix_tokens) |-> 0 ],
                                                  !.ret = 0, !.absorbed = 0]
                               /\ UNCHANGED final_responses
                               /\ IF s1.suffix_tokens = <<>>
                                  THEN /\ slots' = [slots EXCEPT ![k] = ActivatedSlot(s1)]
                                       /\ active_clients' = active_clients + 1
                                       /\ AssignReturn
                                       /\ UNCHANGED <<batch, start, local_cap>>
                                  ELSE /\ slots' = [slots EXCEPT ![k] = s1]
                                       /\ batch' = BatchOver(s1.suffix_tokens, s1.prefix_len, s1.seq_id)
                                       /\ local_cap' = batch_cap_init
                                       /\ start' = 0
                                       /\ pc' = "suffix"
                                       /\ UNCHANGED <<cur, active_clients>>
    /\ UNCHANGED <<envVars, logits, calls, log, call, prepVars, slots_pending_reassign,
                   batch_slots, decode_success, dynamic_cache_miss, gen>>

(* lines 656-690 and 793-805: one llama_decode of decode_prompt_tokens *)
SuffixStep ==
    /\ pc = "suffix"
    /\ LET k == cur.slot_idx
           slot == slots[k]
           n_tokens == Len(Window)
       IN \E ret \in DecodeCodes(Window) :
            IF ret = 0
            THEN /\ kv' = KvStore(kv, Window)
                 /\ logits' = WindowLogits(kv', Window)
                 /\ obs' = ObsAccept(obs, Window)
                 /\ IF start + n_tokens >= Len(batch)
                    THEN /\ slots' = [slots EXCEPT ![k] = ActivatedSlot(slot)]
                         /\ active_clients' = active_clients + 1
                         /\ batch' = <<>>
                         /\ start' = 0
                         /\ AssignReturn
                    ELSE /\ start' = start + n_tokens
                         /\ UNCHANGED <<slots, active_clients, batch, pc, cur>>
                 /\ UNCHANGED <<local_cap, dynamic_cache_miss, final_responses>>
            ELSE IF Absorbable(ret, local_cap)
            THEN /\ local_cap' = HalvedCap(local_cap)
                 /\ dynamic_cache_miss' = CountMiss(dynamic_cache_miss)
                 /\ obs' = ObsAbsorb(obs, ret)
                 /\ UNCHANGED <<kv, logits, slots, active_clients, batch, start, pc, cur,
                                final_responses>>
            ELSE LET msg == "Failed to decode prompt tokens"
                     failed == [slot EXCEPT !.failed = TRUE, !.error_msg = msg]
                 IN /\ kv' = IF failed.seq_id > 0
                             THEN llama_kv_self_seq_rm(kv, failed.seq_id) ELSE kv
                    /\ final_responses' =
                           StoreResult(final_responses, failed.global_index, ErrorText(failed.error_msg))
                    /\ obs' = [ObsFail(ObsRefuse(obs, ret), failed.global_index, msg) EXCEPT
                                 !.soft_suffix = IF ret > 0 THEN @ \cup {failed.global_index} ELSE @]
                    /\ slots' = [slots EXCEPT ![k] = release_slot(failed)]
                    /\ batch' = <<>>
                    /\ start' = 0
                    /\ pc' = "assign"
                    /\ UNCHANGED <<logits, active_clients, local_cap, dynamic_cache_miss, cur>>
    /\ UNCHANGED <<envVars, calls, log, call, prepVars, next_prompt_idx,
                   slots_pending_reassign, batch_slots, decode_success, gen>>

(* lines 830-844: the rows of one generation batch, in slot order.         *)
(* st = [slots, batch, batch_slots]                                        *)
RECURSIVE AssembleFrom(_, _)
AssembleFrom(i, st) ==
    IF i >= seq_capacity THEN st
    ELSE LET slot == st.slots[i]
         IN IF ~slot.active \/ slot.failed THEN AssembleFrom(i + 1, st)
            ELSE LET s1 == IF slot.n_decoded = 0 /\ slot.full_tokens # NullTokens
                              /\ FullTokens(slot) # <<>>
                           THEN [slot EXCEPT !.sampled = Last(FullTokens(slot))]
                           ELSE slot
                     s2 == [s1 EXCEPT !.i_batch = Len(st.batch)]
                     row == [tok |-> s2.sampled, pos |-> s2.n_past + s2.n_decoded,
                             seq |-> s2.seq_id, logits |-> TRUE]
                 IN AssembleFrom(i + 1,
                        [slots |-> [st.slots EXCEPT ![i] = s2],
                         batch |-> Append(st.batch, row),
                         batch_slots |-> Append(st.batch_slots, i)])

Assemble ==
    /\ pc = "assemble"
    /\ LET st == AssembleFrom(0, [slots |-> slots, batch |-> <<>>, batch_slots |-> <<>>])
       IN /\ slots' = st.slots
          /\ obs' = [obs EXCEPT !.acc = [ j \in 1..Len(st.batch) |-> 0 ],
                                 !.ret = 0, !.absorbed = 0]
          /\ IF Len(st.batch) = 0
             THEN /\ pc' = "cleanup"
                  /\ UNCHANGED <<batch, batch_slots, decode_success, local_cap, start>>
             ELSE /\ batch' = st.batch
                  /\ batch_slots' = st.batch_slots
                  /\ decode_success' = TRUE
                  /\ local_cap' = batch_cap_init
                  /\ start' = 0
                  /\ pc' = "gen"
    /\ UNCHANGED <<envVars, ctxVars, calls, log, call, prepVars, next_prompt_idx, active_clients,
                   slots_pending_reassign, final_responses, dynamic_cache_miss, cur, gen>>

(* lines 853-874: one llama_decode of the generation batch *)
GenStep ==
    /\ pc = "gen"
    /\ IF start >= Len(batch)
       THEN /\ pc' = "reassign"
            /\ cur' = [cur EXCEPT !.r_i = 0]
            /\ UNCHANGED <<kv, logits, local_cap, dynamic_cache_miss, decode_success, obs>>
       ELSE \E ret \in DecodeCodes(Window) :
              IF ret = 0
              THEN /\ kv' = KvStore(kv, Window)
                   /\ logits' = WindowLogits(kv', Window)
                   /\ obs' = ObsAccept(obs, Window)
                   /\ pc' = "sample"
                   /\ cur' = [cur EXCEPT !.s_j = 0, !.win_n = Len(Window)]
                   /\ UNCHANGED <<local_cap, dynamic_cache_miss, decode_success>>
              ELSE IF Absorbable(ret, local_cap)
              THEN /\ local_cap' = HalvedCap(local_cap)
                   /\ dynamic_cache_miss' = CountMiss(dynamic_cache_miss)
                   /\ obs' = ObsAbsorb(obs, ret)
                   /\ UNCHANGED <<kv, logits, pc, cur, decode_success>>
              ELSE /\ decode_success' = FALSE
                   /\ obs' = [ObsRefuse(obs, ret) EXCEPT !.gen_fail = IF ret > 0 THEN "soft" ELSE "fatal"]
                   /\ pc' = "reassign"
                   /\ cur' = [cur EXCEPT !.r_i = 0]
                   /\ UNCHANGED <<kv, logits, local_cap, dynamic_cache_miss>>
    /\ UNCHANGED <<envVars, calls, log, call, prepVars, slotVars, batch, start, batch_slots, gen>>

FinalizeIndexBySlot(slot, slot_idx) == slot_idx

(* results index and text that finalize_slot stores, lines 709-714 *)
FinalizeIndex(slot, slot_idx) == slot.global_index
FinalizeTextAlwaysClean(slot, success) == clean_response_text(slot.response)

FinalizeText(slot, success) ==
    IF success THEN clean_response_text(slot.response)
    ELSE ErrorText(IF slot.error_msg = "" THEN "Unknown error" ELSE slot.error_msg)
FinalizeKvKept(mem, slot) == mem
FinalizeKvKeepsPrompt(mem, slot) ==
    { r \in mem : r.seq # slot.seq_id \/ r.pos < slot.n_prompt }

(* lines 704-706: the rows of the slot's seq-id leave the KV memory *)
FinalizeKv(mem, slot) ==
    IF slot.seq_id > 0 THEN llama_kv_self_seq_rm(mem, slot.seq_id) ELSE mem

(* lines 698-741: finalize_slot on the slot as the caller left it *)
(* o: the observations up to the call of finalize_slot                     *)
finalize_slot(slot, slot_idx, success, o) ==
    IF ~slot.active
    THEN /\ slots' = [slots EXCEPT ![slot_idx] = release_slot(slot)]
         /\ obs' = o
         /\ UNCHANGED <<kv, final_responses, active_clients, slots_pending_reassign>>
    ELSE /\ kv' = FinalizeKv(kv, slot)
         /\ final_responses' =
                StoreResult(final_responses, FinalizeIndex(slot, slot_idx), FinalizeText(slot, success))
         /\ obs' = IF success THEN ObsWrite(o, FinalizeIndex(slot, slot_idx))
                   ELSE ObsFail(o, FinalizeIndex(slot, slot_idx), slot.error_msg)
         /\ active_clients' = active_clients - 1
         /\ slots' = [slots EXCEPT ![slot_idx] = release_slot(slot)]
         /\ slots_pending_reassign' =
                IF next_prompt_idx < n_prompts
                THEN Append(slots_pending_reassign, slot_idx)
                ELSE slots_pending_reassign

(* Under the free runtime a slot is followed for MaxDecoded tokens; the    *)
(* tokens it samples after that are no longer counted nor added to its     *)
(* response, its sampler history and its positions.                        *)
Saturated(slot) == rt.mode = "free" /\ slot.n_decoded >= MaxDecoded

StopOnMaxTokensOnly(slot, new_token) ==
    inp.max_tokens > 0 /\ slot.n_decoded >= inp.max_tokens

StopAfterMaxTokens(slot, new_token) ==
    \/ new_token = eos_token
    \/ llama_vocab_is_eog(new_token)
    \/ (inp.max_tokens > 0 /\ slot.n_decoded > inp.max_tokens)

(* lines 891-908: should_stop and the response after sampling new_token *)
StopBeforeAppend(slot, new_token) ==
    \/ new_token = eos_token
    \/ llama_vocab_is_eog(new_token)
    \/ (inp.max_tokens > 0 /\ slot.n_decoded >= inp.max_tokens)

SampledSlotKeepsRow(slot, new_token) ==
    [slot EXCEPT !.smpl = common_sampler_accept(slot.smpl, new_token),
                 !.response = IF StopBeforeAppend(slot, new_token) THEN slot.response
                              ELSE slot.response \o common_token_to_piece(new_token),
                 !.sampled = new_token,
                 !.n_decoded = slot.n_decoded + 1]

SampledSlot(slot, new_token) ==
    LET stop0 == StopBeforeAppend(slot, new_token)
        resp == IF stop0 THEN slot.response
                ELSE slot.response \o common_token_to_piece(new_token)
    IN IF Saturated(slot)
       THEN [slot EXCEPT !.sampled = new_token, !.i_batch = 0 - 1]
       ELSE [slot EXCEPT !.smpl = common_sampler_accept(slot.smpl, new_token),
                         !.response = resp,
                         !.sampled = new_token,
                         !.n_decoded = slot.n_decoded + 1,
                         !.i_batch = 0 - 1]

ShouldStop(slot, new_token) ==
    \/ StopBeforeAppend(slot, new_token)
    \/ /\ slot.n_decoded > 5
       /\ LET resp == slot.response \o common_token_to_piece(new_token)
          IN \/ StrFind(resp, UserMarker, 0) # NPOS
             \/ StrFind(resp, HumanMarker, 0) # NPOS

(* the last seven tokens a sampler accepted, new_token included *)
LastSeven(smpl, new_token) ==
    LET h == Append(smpl.hist, new_token)
    IN IF Len(h) < 7 THEN h ELSE SubSeq(h, Len(h) - 6, Len(h))

(* what is observed of one sampling step of a slot *)
ObsSample(o, slot, slot_idx, new_token) ==
    LET g == slot.global_index
    IN [o EXCEPT
          !.steps = IF Saturated(slot) THEN @ ELSE [@ EXCEPT ![g + 1] = @ + 1],
          !.last = [slot_idx |-> slot_idx, g |-> g, tok |-> new_token,
                    response |-> slot.response],
          !.tracked = IF new_token # ThrowTok
                         /\ LastSeven(slot.smpl, new_token) \in {eot_sequence, end_header_sequence}
                      THEN @ \cup {g} ELSE @,
          !.marker_stop = IF new_token # ThrowTok /\ ShouldStop(slot, new_token)
                             /\ ~StopBeforeAppend(slot, new_token)
                          THEN @ \cup {g} ELSE @]

(* lines 876-928: the next slot of batch_slots whose row is in the decoded *)
(* window samples; with none left the window is done                       *)
SampleStep ==
    /\ pc = "sample"
    /\ LET elig == { j \in cur.s_j..(Len(batch_slots) - 1) :
                       LET slot == slots[batch_slots[j + 1]]
                       IN /\ slot.active /\ ~slot.failed
                          /\ slot.i_batch >= start
                          /\ slot.i_batch < start + cur.win_n }
       IN IF elig = {}
          THEN /\ start' = start + cur.win_n
               /\ pc' = "gen"
               /\ UNCHANGED <<cur, kv, slots, final_responses, active_clients,
                              slots_pending_reassign, obs>>
          ELSE LET j == CHOOSE x \in elig : \A y \in elig : x <= y
                   slot_idx == batch_slots[j + 1]
                   slot == slots[slot_idx]
                   batch_pos == slot.i_batch - start
               IN /\ rt.mode # "det" \/ slot.n_decoded < MaxDecoded
                  /\ cur' = [cur EXCEPT !.s_j = j + 1]
                  /\ UNCHANGED <<start, pc>>
                  /\ \E new_token \in SampleOutcomes(slot.smpl, logits[batch_pos + 1]) :
                       LET o == ObsSample(obs, slot, slot_idx, new_token)
                       IN IF new_token = ThrowTok
                          THEN finalize_slot([slot EXCEPT !.failed = TRUE,
                                                         !.error_msg = "Sampling failed: exception",
                                                         !.i_batch = 0 - 1], slot_idx, FALSE, o)
                          ELSE IF ShouldStop(slot, new_token)
                          THEN finalize_slot(SampledSlot(slot, new_token), slot_idx, TRUE, o)
                          ELSE /\ slots' = [slots EXCEPT ![slot_idx] = SampledSlot(slot, new_token)]
                               /\ obs' = o
                               /\ UNCHANGED <<kv, final_responses, active_clients,
                                              slots_pending_reassign>>
    /\ UNCHANGED <<envVars, logits, calls, log, call, prepVars, next_prompt_idx, batch,
                   local_cap, batch_slots, decode_success, dynamic_cache_miss, gen>>

(* lines 931-942 and 981-989: reassignment of the released slots, then the *)
(* throw of a failed batch and its catch                                   *)
ReassignStep ==
    /\ pc = "reassign"
    /\ IF cur.r_i < Len(slots_pending_reassign)
       THEN /\ pc' = "assign"
            /\ cur' = [cur EXCEPT !.slot_idx = slots_pending_reassign[cur.r_i + 1],
                                  !.after_assign = "reassign"]
            /\ UNCHANGED <<envVars, ctxVars, calls, log, call, prepVars, slotVars, subVars, gen, obs>>
       ELSE IF ~decode_success
       THEN /\ kv' = llama_kv_self_clear
            /\ UNCHANGED <<logits, envVars, calls>>
            /\ Return("Error", "Parallel generation failed: Fatal decode error during generation batch", <<>>)
            /\ LocalsReset
       ELSE /\ slots_pending_reassign' = <<>>
            /\ pc' = "while"
            /\ UNCHANGED <<envVars, ctxVars, calls, log, call, prepVars, slots, next_prompt_idx,
                           active_clients, final_responses, subVars, cur, gen, obs>>

CleanupKvKept(mem) == mem

(* lines 945-979: release of the slots, removal of seq 0, the result array *)
CleanupKv(mem) == IF prefix_ready THEN llama_kv_self_seq_rm(mem, 0) ELSE mem

Cleanup ==
    /\ pc = "cleanup"
    /\ kv' = CleanupKv(kv)
    /\ Return("Success", "", final_responses)
    /\ LocalsReset
    /\ UNCHANGED <<envVars, logits, calls>>

(* ------------------------- localllm_generate --------------------------- *)
(* lines 383-386: the sliding window of the last seven tokens *)
PushRecent(recent, tok) ==
    LET r == Append(recent, tok)
    IN IF Len(r) > 7 THEN Tail(r) ELSE r

RECURSIVE Pieces(_)
Pieces(toks) ==
    IF toks = <<>> THEN <<>> ELSE common_token_to_piece(Head(toks)) \o Pieces(Tail(toks))

RetractNone(text, recent) == text

(* lines 400-412: the text without the pieces of the six preceding tokens *)
RetractSix(text, recent) ==
    LET tokens_to_remove == Pieces(SubSeq(recent, Len(recent) - 6, Len(recent) - 1))
    IN IF EndsWith(text, tokens_to_remove)
       THEN SubSeq(text, 1, Len(text) - Len(tokens_to_remove))
       ELSE text

(* lines 333-369: clear, decode of the prompt under seq 0, the sampler *)
CallGenerate ==
    /\ pc = "idle"
    /\ NextOp = "gen"
    /\ ~TokenizeThrows(inp.prompts[1])
    /\ calls' = calls + 1
    /\ LET tokens_in == helper_tokenize(inp.prompts[1])
           one == [ j \in 1..Len(tokens_in) |->
                      [tok |-> tokens_in[j], pos |-> j - 1, seq |-> 0,
                       logits |-> j = Len(tokens_in)] ]
           entry(status, error) ==
               LogEntry([op |-> "generate", n_prompts |-> 1, share |-> TRUE, kv_in |-> kv],
                        status, error, <<>>, 0, NoObs)
       IN \E ret \in DecodeCodes(one) :
            IF ret # 0
            THEN /\ kv' = llama_kv_self_clear
                 /\ log' = Append(log, entry("Error", "Failed to decode input tokens."))
                 /\ UNCHANGED <<logits, pc, call, gen>>
            ELSE /\ kv' = KvStore(llama_kv_self_clear, one)
                 /\ logits' = WindowLogits(kv', one)
                 /\ \E seed \in EffectiveSeeds(inp.seed), ok \in SamplerInitOk :
                      IF ~ok
                      THEN /\ log' = Append(log, entry("Error", "Failed to initialize sampler chain."))
                           /\ UNCHANGED <<pc, call, gen>>
                      ELSE /\ gen' = [NoGen EXCEPT !.smpl = common_sampler_init(seed)]
                           /\ call' = [op |-> "generate", n_prompts |-> 1, share |-> TRUE,
                                       kv_in |-> kv]
                           /\ pc' = "gloop"
                           /\ UNCHANGED log
    /\ UNCHANGED <<envVars, prepVars, slotVars, subVars, cur, obs>>

(* lines 371-452: one round of the generation loop *)
GenerateStep ==
    /\ pc = "gloop"
    /\ UNCHANGED <<envVars, calls, prepVars, slotVars, subVars, cur>>
    /\ IF gen.i >= inp.max_tokens
       THEN /\ Return("Success", "", <<gen.generated_text>>)
            /\ gen' = NoGen
            /\ UNCHANGED ctxVars
       ELSE \E new_token \in SampleOutcomes(gen.smpl, Last(logits)) :
              IF new_token = ThrowTok
              THEN /\ Return("Exception", "sampling raised", <<>>)
                   /\ gen' = NoGen
                   /\ UNCHANGED ctxVars
              ELSE IF llama_vocab_is_eog(new_token)
              THEN /\ Return("Success", "", <<gen.generated_text>>)
                   /\ gen' = NoGen
                   /\ UNCHANGED ctxVars
              ELSE LET recent == PushRecent(gen.recent_tokens, new_token)
                   IN IF Len(recent) >= 7 /\ recent \in {eot_sequence, end_header_sequence}
                      THEN /\ Return("Success", "", <<RetractSix(gen.generated_text, recent)>>)
                           /\ gen' = NoGen
                           /\ UNCHANGED ctxVars
                      ELSE LET text == gen.generated_text \o common_token_to_piece(new_token)
                               next_batch == << [tok |-> new_token, pos |-> SeqTail(kv, 0),
                                                 seq |-> 0, logits |-> TRUE] >>
                           IN \E ret \in DecodeCodes(next_batch) :
                                IF ret # 0
                                THEN /\ Return("Error", "Failed to decode generated token.", <<>>)
                                     /\ gen' = NoGen
                                     /\ UNCHANGED ctxVars
                                ELSE /\ kv' = KvStore(kv, next_batch)
                                     /\ logits' = WindowLogits(kv', next_batch)
                                     /\ gen' = [gen EXCEPT
                                                  !.smpl = common_sampler_accept(@, new_token),
                                                  !.generated_text = text,
                                                  !.recent_tokens = recent,
                                                  !.i = @ + 1]
                                     /\ UNCHANGED <<pc, log, call, obs>>

(* ------------------------------ system --------------------------------- *)
Next ==
    \/ \E share \in BOOLEAN : CallParallel(Len(inp.prompts), share)
    \/ CallParallel(0, TRUE)
    \/ PrefixStep
    \/ Setup
    \/ FillStep
    \/ WhileCheck
    \/ AssignStep
    \/ SuffixStep
    \/ Assemble
    \/ GenStep
    \/ SampleStep
    \/ ReassignStep
    \/ Cleanup
    \/ CallGenerate
    \/ GenerateStep

Spec == Init /\ [][Next]_vars
SpecDet == InitDet /\ [][Next]_vars
SpecScript == InitScript /\ [][Next]_vars

(* the program runs on: a step is taken whenever one is possible *)
SpecLive == Init /\ [][Next]_vars /\ WF_vars(Next)
SpecLiveCap4 == InitCap4 /\ [][Next]_vars /\ WF_vars(Next)

(* ============================== claims ================================= *)
ParallelCalls == { c \in 1..Len(log) : log[c].op = "parallel" }
Succeeded(c) == log[c].status = "Success"
IsSentinel(text) == Len(text) >= 1 /\ text[1] = "[ERROR] "
PromptTokens(i) == helper_tokenize(inp.prompts[i])

(* What one prompt yields on its own under a deterministic runtime: the    *)
(* rejection, or the text of the tokens drawn one after another by a fresh *)
(* sampler from the logits of the prompt followed by its last token and    *)
(* the tokens drawn so far.                                                *)
RECURSIVE SoloText(_, _, _, _)
SoloText(fed, smpl, resp, nd) ==
    IF nd >= MaxDecoded THEN <<"unfinished">>
    ELSE LET logit == SumSeq([ j \in 1..Len(fed) |-> fed[j] * j ])
             t == DetSample(smpl, logit)
             stop0 == llama_vocab_is_eog(t) \/ (inp.max_tokens > 0 /\ nd >= inp.max_tokens)
             text == IF stop0 THEN resp ELSE resp \o common_token_to_piece(t)
             stop == stop0 \/ (nd > 5 /\ (StrFind(text, UserMarker, 0) # NPOS
                                          \/ StrFind(text, HumanMarker, 0) # NPOS))
         IN IF t = ThrowTok THEN <<"[ERROR] ", "Sampling failed: exception">>
            ELSE IF stop THEN clean_response_text(text)
            ELSE SoloText(Append(fed, t), common_sampler_accept(smpl, t), text, nd + 1)

Undecodable(toks) ==
    \/ rt.maxWin < 1
    \/ rt.badKind \in {"soft", "fatal"} /\ \E j \in 1..Len(toks) : toks[j] = rt.badTok

SoloOutcome(toks, seed) ==
    IF ~rt.smplOk THEN <<"[ERROR] ", "Failed to initialize sampler">>
    ELSE IF Len(toks) > cfg.n_ctx - 64 THEN <<"[ERROR] ", "Prompt too long for context size">>
    ELSE IF Len(toks) = 0 THEN <<"[ERROR] ", "Prompt resulted in zero tokens">>
    ELSE IF Undecodable(toks) THEN <<"[ERROR] ", "Failed to decode prompt tokens">>
    ELSE SoloText(Append(toks, toks[Len(toks)]),
                  [alive |-> TRUE, seed |-> seed, hist |-> <<>>], <<>>, 0)

(* C1: whenever generate_parallel returns success, the result array has    *)
(* n_prompts entries and entry i is the outcome of prompts[i] (its cleaned *)
(* text or its error sentinel), also when the prompts outnumber the slots  *)
(* and a slot serves several prompts one after another.                    *)
C1_ResultsInCallerOrder ==
    \A c \in ParallelCalls :
        Succeeded(c) =>
            /\ Len(log[c].results) = log[c].n_prompts
            /\ \A i \in 1..log[c].n_prompts :
                 log[c].results[i] = SoloOutcome(PromptTokens(i), log[c].seed)

(* C1 witness: a successful call of two prompts on a context with a single *)
(* slot, with two different texts as results                               *)
C1_Witness ==
    \E c \in ParallelCalls :
        /\ Succeeded(c) /\ log[c].n_prompts = 2 /\ cfg.n_seq_max = 1
        /\ ~IsSentinel(log[c].results[1]) /\ ~IsSentinel(log[c].results[2])
        /\ log[c].results[1] # log[c].results[2]

(* C2: with a seed >= 0, two calls of the same operation with the same     *)
(* arguments on the same context return the same status and the same       *)
(* results, whatever rows earlier calls left in the KV memory.             *)
C2_SameInputsSameResults ==
    inp.seed >= 0 =>
        \A c1, c2 \in 1..Len(log) :
            (/\ log[c1].op = log[c2].op
             /\ log[c1].n_prompts = log[c2].n_prompts
             /\ log[c1].share = log[c2].share)
            => /\ log[c1].status = log[c2].status
               /\ log[c1].results = log[c2].results

(* C2 witness: the same parallel call made on an empty KV memory and again *)
(* on the rows a generate call left behind, both returning a text          *)
C2_Witness ==
    /\ inp.seed >= 0
    /\ \E c1, c2 \in ParallelCalls :
        /\ c1 < c2 /\ log[c1].share = log[c2].share
        /\ Succeeded(c1) /\ Succeeded(c2)
        /\ log[c1].kv_in = {} /\ log[c2].kv_in # {}
        /\ \E i \in 1..log[c2].n_prompts : ~IsSentinel(log[c2].results[i])

LastCall == log[Len(log)]
JustReturned(op) ==
    pc = "idle" /\ Len(log) > 0 /\ LastCall.op = op /\ LastCall.status \in {"Success", "Error"}

(* C3 as stated: after any return of generate_parallel, with success or    *)
(* with an error, the KV memory holds no row under any seq-id.             *)
C3_KvEmptyAfterAnyReturn == JustReturned("parallel") => kv = {}

(* C3 amended: after the return of any call of generate_parallel that      *)
(* passed the argument check, with success or with                         *)
(* ParallelGenerationFailed, the KV memory holds no row under any seq-id.  *)
C3_KvEmptyAfterCheckedCall ==
    (JustReturned("parallel") /\ LastCall.n_prompts > 0) => kv = {}

(* C3 witness: a successful call that found rows in the KV memory at entry *)
(* and decoded a shared prefix under seq-id 0 has returned                 *)
C3_Witness ==
    /\ JustReturned("parallel") /\ LastCall.n_prompts > 0
    /\ LastCall.status = "Success" /\ LastCall.prefix_ready /\ LastCall.kv_in # {}
    /\ kv = {}

(* C4: a failure of one prompt (sampler construction, context overflow,    *)
(* zero tokens, suffix decode, exception while sampling) leaves the        *)
(* sentinel "[ERROR] " + message at that prompt's index, written once, and *)
(* its slot released; no result is written twice; the call returns an      *)
(* error only when a generation batch failed, and a successful call        *)
(* returns the sentinel of every failed prompt and has written every       *)
(* result once.                                                            *)
C4_PromptFailuresStayLocal ==
    /\ call.op = "parallel" =>
         /\ \A i \in 1..Len(obs.writes) : obs.writes[i] <= 1
         /\ \A f \in obs.failed :
              /\ final_responses[f[1] + 1] = <<"[ERROR] ", f[2]>>
              /\ obs.writes[f[1] + 1] = 1
              /\ \A k \in DOMAIN slots : slots[k].global_index # f[1]
    /\ \A c \in ParallelCalls :
         /\ (log[c].status = "Error" /\ log[c].n_prompts > 0) => log[c].obs.gen_fail # "none"
         /\ Succeeded(c) =>
              /\ \A f \in log[c].obs.failed : log[c].results[f[1] + 1] = <<"[ERROR] ", f[2]>>
              /\ \A i \in 1..log[c].n_prompts : log[c].obs.writes[i] = 1

(* C4 witness: a successful call on a single slot whose first prompt       *)
(* failed while sampling and whose second prompt returned a text           *)
C4_Witness ==
    \E c \in ParallelCalls :
        /\ Succeeded(c) /\ log[c].n_prompts = 2 /\ cfg.n_seq_max = 1
        /\ <<0, "Sampling failed: exception">> \in log[c].obs.failed
        /\ ~IsSentinel(log[c].results[2])

(* C5 as stated: every call of generate_parallel that does not succeed     *)
(* returns Error with an error message and without results.                *)
C5_FailedCallReturnsError ==
    \A c \in ParallelCalls :
        ~Succeeded(c) =>
            /\ log[c].status = "Error"
            /\ log[c].error # ""
            /\ log[c].results = <<>>

(* C6 as stated: when the runtime still returns a positive code at chunk   *)
(* size 1 (and never a negative one), only the owning slots fail: the call *)
(* returns success, with a sentinel for each prompt whose suffix decode    *)
(* was refused.  Both for a suffix decode and for a generation batch.      *)
C6_SoftCollapseStaysLocal ==
    \A c \in ParallelCalls :
        (/\ log[c].obs.soft_suffix # {} \/ log[c].obs.gen_fail = "soft"
         /\ log[c].obs.gen_fail # "fatal")
        => /\ Succeeded(c)
           /\ \A g \in log[c].obs.soft_suffix : IsSentinel(log[c].results[g + 1])

(* C7: in a successful call a prompt of more than n_ctx - 64 tokens gets   *)
(* an error sentinel, is never copied or decoded under a slot seq-id, and  *)
(* every other prompt gets the result it yields without it.                *)
C7_OverflowIsolated ==
    \A c \in ParallelCalls :
        Succeeded(c) =>
            \A i \in 1..log[c].n_prompts :
                Len(PromptTokens(i)) > cfg.n_ctx - 64 =>
                    /\ IsSentinel(log[c].results[i])
                    /\ (i - 1) \notin log[c].obs.slot_fed
                    /\ \A j \in 1..log[c].n_prompts :
                         j # i => log[c].results[j] = SoloOutcome(PromptTokens(j), log[c].seed)

(* C7 witness: a successful call with an overlong prompt next to a prompt  *)
(* that returned a text                                                    *)
C7_Witness ==
    \E c \in ParallelCalls :
        /\ Succeeded(c) /\ log[c].n_prompts = 2
        /\ Len(PromptTokens(1)) > cfg.n_ctx - 64
        /\ log[c].results[1] = <<"[ERROR] ", "Prompt too long for context size">>
        /\ ~IsSentinel(log[c].results[2])

(* C8: with a seed >= 0, the call with prefix sharing and the same call    *)
(* with the shared-prefix length forced to 0 return the same status and    *)
(* the same results.                                                       *)
C8_PrefixSharingIsOptimisation ==
    inp.seed >= 0 =>
        \A c1, c2 \in ParallelCalls :
            (log[c1].n_prompts = log[c2].n_prompts /\ log[c1].share /\ ~log[c2].share)
            => /\ log[c1].status = log[c2].status
               /\ log[c1].results = log[c2].results

(* C8 witness: two prompts with a common first token, run once with the    *)
(* prefix decoded under seq-id 0 and once without, both returning texts    *)
C8_Witness ==
    /\ inp.seed >= 0
    /\ \E c1, c2 \in ParallelCalls :
        /\ log[c1].share /\ ~log[c2].share /\ log[c1].prefix_ready
        /\ Succeeded(c1) /\ Succeeded(c2) /\ log[c1].n_prompts = 2
        /\ inp.prompts[1] # inp.prompts[2]
        /\ \A i \in 1..2 : ~IsSentinel(log[c1].results[i])

AllSamePrompt == \A i, j \in 1..Len(inp.prompts) : inp.prompts[i] = inp.prompts[j]

(* C9: with a seed >= 0, N copies of one prompt get N identical results in *)
(* every successful call.                                                  *)
C9_CopiesAgree ==
    (inp.seed >= 0 /\ AllSamePrompt) =>
        \A c \in ParallelCalls :
            Succeeded(c) =>
                \A i, j \in 1..log[c].n_prompts : log[c].results[i] = log[c].results[j]

(* C9 witness: two copies of a prompt served by two slots at once, both    *)
(* returning a non-empty text                                              *)
C9_Witness ==
    /\ inp.seed >= 0 /\ AllSamePrompt
    /\ \E c \in ParallelCalls :
        /\ Succeeded(c) /\ log[c].n_prompts = 2 /\ cfg.n_seq_max = 2
        /\ ~IsSentinel(log[c].results[1]) /\ log[c].results[1] # <<>>

(* C10 as stated: with a seed >= 0, generate_parallel on the one-element   *)
(* vector [p] returns the string that generate returns on the tokens of p. *)
C10_SingleEqualsGenerate ==
    (inp.seed >= 0 /\ Len(inp.prompts) = 1) =>
        \A c1, c2 \in 1..Len(log) :
            (/\ log[c1].op = "generate" /\ log[c2].op = "parallel" /\ log[c2].share
             /\ Succeeded(c1) /\ Succeeded(c2))
            => log[c2].results[1] = log[c1].results[1]

(* C11 as stated: every call of generate_parallel ends, with success or    *)
(* with an error, for every max_tokens and every behaviour of the runtime  *)
(* and of the sampler.                                                     *)
C11_EveryCallEnds == (call.op = "parallel") ~> (pc = "idle")

(* C12 as stated: with max_tokens = 0 no slot performs a sampling step and *)
(* every prompt that is not rejected gets the empty string.                *)
C12_ZeroMaxTokensNoSampling ==
    inp.max_tokens = 0 =>
        /\ call.op = "parallel" => \A i \in 1..Len(obs.steps) : obs.steps[i] = 0
        /\ \A c \in ParallelCalls :
             Succeeded(c) =>
                 \A i \in 1..log[c].n_prompts :
                     /\ log[c].obs.steps[i] = 0
                     /\ ~IsSentinel(log[c].results[i]) => log[c].results[i] = <<>>

(* a sampling step of a slot has just been taken *)
SamplingStepTaken == pc = "sample" /\ obs'.steps # obs.steps

(* C13: a sampling step that yields an end-of-generation token finalises   *)
(* the slot in that step: the slot is released, the stored result is the   *)
(* cleaned response as it was before the token (the token's text is not    *)
(* appended), the rows of the slot's seq-id are removed; when it is the    *)
(* prompt's first sampling step the result is the empty string.            *)
C13_EogStopsWithoutText ==
    [][ (SamplingStepTaken /\ llama_vocab_is_eog(obs'.last.tok)) =>
            LET k == obs'.last.slot_idx
                g == obs'.last.g
            IN /\ ~slots'[k].active
               /\ final_responses'[g + 1] = clean_response_text(obs'.last.response)
               /\ obs'.writes[g + 1] = 1
               /\ SeqRows(kv', slots[k].seq_id) = {}
               /\ obs'.steps[g + 1] = 1 => final_responses'[g + 1] = <<>> ]_vars

(* C13 witness: the first token sampled for a prompt was the end-of-        *)
(* sequence token; its slot is released and its result is the empty string *)
C13_Witness ==
    /\ pc = "sample" /\ call.op = "parallel"
    /\ obs.last.tok = eos_token
    /\ obs.steps[obs.last.g + 1] = 1
    /\ obs.writes[obs.last.g + 1] = 1
    /\ final_responses[obs.last.g + 1] = <<>>
    /\ ~slots[obs.last.slot_idx].active
    /\ SeqRows(kv, obs.last.slot_idx + 1) = {}

(* the text holds the piece of one of the tokens *)
HoldsPieceOf(text, toks) ==
    \E k \in 1..Len(toks) : StrFind(text, common_token_to_piece(toks[k]), 0) # NPOS

(* C14: in generate_parallel a slot whose last seven accepted tokens equal *)
(* a tracked control sequence stops at the seventh token and its result    *)
(* holds the text of none of the seven tokens.                             *)
C14_ControlSequenceRetracted ==
    \A c \in ParallelCalls :
        Succeeded(c) =>
            \A g \in log[c].obs.tracked :
                /\ log[c].obs.steps[g + 1] <= 7
                /\ ~HoldsPieceOf(log[c].results[g + 1], eot_sequence)
                /\ ~HoldsPieceOf(log[c].results[g + 1], end_header_sequence)

(* the call is past the set-up of its slots (lines 820-979) *)
InMainLoop ==
    /\ call.op = "parallel"
    /\ pc \in {"fill", "while", "assign", "suffix", "assemble", "gen", "sample",
               "reassign", "cleanup"}

(* the prompts taken from the queue so far, and those of them whose result *)
(* is not yet written                                                      *)
Admitted == obs.slot_fed \cup { f[1] : f \in obs.failed }
InFlight == { g \in Admitted : obs.writes[g + 1] = 0 }

(* C15: prompts are admitted in increasing index order (the admitted ones  *)
(* are always the indices below next_prompt_idx), at most S admitted       *)
(* prompts are unfinished at any time, the first min(S, n_prompts) are     *)
(* admitted before any generation step, and a prompt beyond the first S is *)
(* admitted only after an earlier one was finalised.                       *)
C15_AdmissionOrder ==
    InMainLoop =>
        /\ Admitted = 0..(next_prompt_idx - 1)
        /\ Cardinality(InFlight) <= seq_capacity
        /\ Cardinality({ k \in DOMAIN slots : slots[k].active }) <= seq_capacity
        /\ active_clients <= seq_capacity
        /\ pc \in {"assemble", "gen", "sample"} =>
               next_prompt_idx >= Min(seq_capacity, n_prompts)
        /\ next_prompt_idx > seq_capacity =>
               Cardinality({ g \in Admitted : obs.writes[g + 1] > 0 })
                   >= next_prompt_idx - seq_capacity

(* C15 witness: more prompts than slots; the first prompt generated and    *)
(* was finalised, and its slot now serves the second prompt                *)
C15_Witness ==
    /\ InMainLoop /\ pc = "sample"
    /\ n_prompts > seq_capacity
    /\ next_prompt_idx > seq_capacity
    /\ obs.steps[1] > 0 /\ obs.writes[1] = 1
    /\ \E k \in DOMAIN slots : slots[k].active /\ slots[k].global_index = seq_capacity

(* the runtime refuses windows of more than one token, with a positive     *)
(* code, in its first rt.winCalls calls and accepts every window after     *)
WindowLimitedAtFirst ==
    rt.mode = "det" /\ rt.winCalls > 0 /\ rt.maxWin = 1 /\ rt.badKind = "none" /\ rt.smplOk

(* C16: a call in which the runtime refuses the windows of more than one   *)
(* token with a positive code and accepts every one-token window ends as   *)
(* the call with the same arguments in which every window is accepted: the *)
(* same status and the same results, success when every prompt tokenises,  *)
(* and dynamic_cache_miss >= 1 when a window was refused.                  *)
C16_AbsorbedFailuresInvisible ==
    WindowLimitedAtFirst =>
        \A c \in ParallelCalls :
            c <= rt.winCalls =>
                /\ (\A i \in 1..log[c].n_prompts : ~TokenizeThrows(inp.prompts[i]))
                       => Succeeded(c)
                /\ log[c].obs.refused => log[c].dynamic_cache_miss >= 1
                /\ \A d \in ParallelCalls :
                       (d > rt.winCalls /\ log[d].share = log[c].share
                          /\ log[d].n_prompts = log[c].n_prompts
                          /\ log[d].seed = log[c].seed)
                       => /\ log[d].status = log[c].status
                          /\ log[d].results = log[c].results
                          /\ log[d].error = log[c].error

(* C16 witness: two prompts, one of two tokens; the first call absorbed    *)
(* refused windows, the third call met none, both returned the same texts  *)
C16_Witness ==
    /\ WindowLimitedAtFirst
    /\ Len(log) >= 3 /\ log[1].op = "parallel" /\ log[3].op = "parallel"
    /\ Succeeded(1) /\ Succeeded(3)
    /\ log[1].n_prompts = 2 /\ log[3].n_prompts = 2
    /\ \E i \in 1..2 : Len(PromptTokens(i)) >= 2
    /\ log[1].obs.refused /\ ~log[3].obs.refused
    /\ log[1].dynamic_cache_miss >= 1
    /\ log[3].dynamic_cache_miss = 0
    /\ log[1].results = log[3].results
    /\ \E i \in 1..2 : ~IsSentinel(log[1].results[i]) /\ log[1].results[i] # <<>>

(* C17: a call in which llama_decode returned a negative code while the    *)
(* shared prefix was decoded under seq-id 0 returns Error, and no prompt   *)
(* is given to a slot in it.                                               *)
C17_FatalPrefixFailsCall ==
    \A c \in ParallelCalls :
        log[c].obs.prefix_fail = "fatal" =>
            /\ log[c].status = "Error"
            /\ log[c].obs.slot_fed = {}

(* a call of generate_parallel that the argument check refuses *)
InvalidCallStep == pc = "idle" /\ NextOp = "parInv" /\ calls' = calls + 1

(* C18: a call of generate_parallel with invalid arguments returns Error   *)
(* with an error message and an unwritten result array, and changes        *)
(* nothing else: the KV memory and the logits are as at entry, no prompt   *)
(* is tokenised, no window decoded, no sampler or slot created.            *)
C18_InvalidArgumentsNoEffect ==
    [][ InvalidCallStep =>
          /\ Len(log') = Len(log) + 1
          /\ log'[Len(log')].op = "parallel"
          /\ log'[Len(log')].status = "Error"
          /\ log'[Len(log')].error # ""
          /\ log'[Len(log')].results = <<>>
          /\ kv' = kv /\ logits' = logits
          /\ UNCHANGED <<pc, call, prepVars, slotVars, subVars, cur, gen, obs>> ]_vars

(* C18 witness: generate left rows in the KV memory, the refused call of   *)
(* generate_parallel that followed returned Error and the rows are there   *)
C18_Witness ==
    /\ pc = "idle" /\ Len(log) = 2
    /\ log[1].op = "generate" /\ log[1].status = "Success"
    /\ log[2].op = "parallel" /\ log[2].n_prompts = 0
    /\ log[2].status = "Error" /\ log[2].results = <<>>
    /\ log[2].kv_in # {} /\ kv = log[2].kv_in

(* C19: the result stored for a prompt whose slot was stopped by the       *)
(* conversation-marker rule holds neither "\n\nUser:" nor "\n\nHuman:".    *)
C19_StopMarkerCleaned ==
    \A c \in ParallelCalls :
        Succeeded(c) =>
            \A g \in log[c].obs.marker_stop :
                /\ StrFind(log[c].results[g + 1], UserMarker, 0) = NPOS
                /\ StrFind(log[c].results[g + 1], HumanMarker, 0) = NPOS

(* where a prompt index is: in the queue, in a slot (an active slot, or    *)
(* the slot assign_next_prompt is decoding the prompt's suffix for, which  *)
(* is marked active when the decode is done), among the written results    *)
Pending(g) == g >= next_prompt_idx
SlotsHolding(g) ==
    { k \in DOMAIN slots :
        /\ slots[k].global_index = g
        /\ slots[k].active \/ (pc = "suffix" /\ cur.slot_idx = k) }
Completed(g) == obs.writes[g + 1] >= 1

(* C20: in every state of a generate_parallel call past its set-up each    *)
(* prompt index is pending, or held by exactly one slot, or completed, and *)
(* in one of the three only; a result is written once; at a successful     *)
(* return every index is completed.                                        *)
C20_IndexInOnePlace ==
    /\ InMainLoop =>
         \A g \in 0..(n_prompts - 1) :
            /\ Pending(g) \/ SlotsHolding(g) # {} \/ Completed(g)
            /\ ~(Pending(g) /\ SlotsHolding(g) # {})
            /\ ~(Pending(g) /\ Completed(g))
            /\ ~(SlotsHolding(g) # {} /\ Completed(g))
            /\ Cardinality(SlotsHolding(g)) <= 1
            /\ obs.writes[g + 1] <= 1
    /\ \A c \in ParallelCalls :
         Succeeded(c) => \A i \in 1..log[c].n_prompts : log[c].obs.writes[i] = 1

(* C20 witness: two prompts and one slot; the slot holds prompt 0 and has  *)
(* sampled for it, prompt 1 is still in the queue                          *)
C20_Witness ==
    /\ InMainLoop /\ pc = "sample"
    /\ n_prompts = 2 /\ seq_capacity = 1
    /\ Pending(1) /\ ~Pending(0)
    /\ SlotsHolding(0) = {0} /\ ~Completed(0)
    /\ obs.steps[1] > 0

(* C21: between the steps of the engine (everywhere but between the decode *)
(* of a generation window and the sampling of its slots) every active slot *)
(* has exactly n_past + n_decoded rows under its seq-id, one at each of    *)
(* the positions 0 .. n_past + n_decoded - 1; and every row of a           *)
(* generation batch still to be decoded is at n_past + n_decoded of its    *)
(* slot, the tail of the slot's sequence.                                  *)
C21_SlotRowsDense ==
    InMainLoop =>
        /\ pc # "sample" =>
             \A k \in DOMAIN slots :
                slots[k].active =>
                    LET rows == SeqRows(kv, slots[k].seq_id)
                        n == slots[k].n_past + slots[k].n_decoded
                    IN /\ Cardinality(rows) = n
                       /\ { r.pos : r \in rows } = 0..(n - 1)
        /\ pc = "gen" =>
             \A j \in (start + 1)..Len(batch) :
                LET slot == slots[batch_slots[j]]
                IN /\ batch[j].seq = slot.seq_id
                   /\ batch[j].pos = slot.n_past + slot.n_decoded
                   /\ batch[j].pos = SeqTail(kv, slot.seq_id)

(* C21 witness: two active slots, one of which has sampled two tokens and  *)
(* holds the rows of its prompt and of those tokens                        *)
C21_Witness ==
    /\ InMainLoop /\ pc = "gen" /\ start = 0 /\ Len(batch) = 2
    /\ \E k \in DOMAIN slots :
         /\ slots[k].active /\ slots[k].n_decoded = 2 /\ slots[k].n_past = 2
         /\ Cardinality(SeqRows(kv, slots[k].seq_id)) = 4
         /\ batch[slots[k].i_batch + 1].pos = 4

(* C22: from the end of the prefix phase to the top-level cleanup seq-id 0 *)
(* holds rows if and only if prefix_ready is true, and no step of the call *)
(* before the one that ends it adds, removes or changes a row of seq-id 0  *)
(* or changes prefix_ready.                                                *)
C22_PrefixRowsFrozen ==
    [][ /\ (InMainLoop \/ (call.op = "parallel" /\ pc = "setup")) =>
              /\ SeqRows(kv, 0) # {} <=> prefix_ready
              /\ pc' # "idle" =>
                    /\ SeqRows(kv', 0) = SeqRows(kv, 0)
                    /\ prefix_ready' = prefix_ready
                    /\ SeqRows(kv', 0) # {} <=> prefix_ready'
        /\ (pc = "prefix" /\ pc' = "setup") =>
              SeqRows(kv', 0) # {} <=> prefix_ready' ]_vars

(* C22 witness: the prefix is loaded, a slot that had a copy of it was     *)
(* finalised and its rows are gone, the rows of seq-id 0 are still there   *)
C22_Witness ==
    /\ InMainLoop /\ prefix_ready
    /\ Cardinality(SeqRows(kv, 0)) = shared_prefix_len /\ shared_prefix_len > 0
    /\ \E g \in 0..(n_prompts - 1) : g \in obs.slot_fed /\ obs.writes[g + 1] = 1
    /\ \A k \in DOMAIN slots : ~slots[k].active /\ SeqRows(kv, k + 1) = {}

(* C23: during a call a slot that holds a prompt (active, or having its    *)
(* suffix decoded) has seq-id slot index + 1 and a released slot has       *)
(* seq-id 0; rows exist under seq-id k + 1 only while slot k holds a       *)
(* prompt; the rows submitted for a slot, suffix or generation, carry the  *)
(* slot's seq-id, never seq-id 0.                                          *)
C23_SeqIdPerSlot ==
    InMainLoop =>
        /\ \A k \in DOMAIN slots :
              /\ slots[k].seq_id \in {0, k + 1}
              /\ (slots[k].active \/ (pc = "suffix" /\ cur.slot_idx = k))
                     => slots[k].seq_id = k + 1
              /\ SeqRows(kv, k + 1) # {} => slots[k].seq_id = k + 1
        /\ \A r \in kv : r.seq \in 0..seq_capacity
        /\ \A k1, k2 \in DOMAIN slots :
              (slots[k1].active /\ slots[k2].active /\ k1 # k2)
                  => slots[k1].seq_id # slots[k2].seq_id
        /\ pc = "suffix" =>
              \A j \in 1..Len(batch) : batch[j].seq = cur.slot_idx + 1
        /\ pc \in {"gen", "sample"} =>
              \A j \in 1..Len(batch) : batch[j].seq = batch_slots[j] + 1

(* C23 witness: two active slots with rows under seq-ids 1 and 2 next to   *)
(* the shared prefix under seq-id 0, and a generation batch of two rows    *)
C23_Witness ==
    /\ InMainLoop /\ pc = "gen" /\ Len(batch) = 2
    /\ prefix_ready /\ SeqRows(kv, 0) # {}
    /\ slots[0].active /\ slots[0].seq_id = 1 /\ SeqRows(kv, 1) # {}
    /\ slots[1].active /\ slots[1].seq_id = 2 /\ SeqRows(kv, 2) # {}
    /\ batch[1].seq = 1 /\ batch[2].seq = 2

(* C24: between the steps of the scheduler a slot has a sampler if and     *)
(* only if it is active (the slot whose suffix assign_next_prompt is       *)
(* decoding has its sampler and is not yet active); the samplers alive are *)
(* as many as the active clients; the sampler of an active slot was        *)
(* created for its prompt: it has accepted the tokens decoded for it and   *)
(* no others.                                                              *)
C24_SamplerIffActive ==
    InMainLoop =>
        /\ \A k \in DOMAIN slots :
              /\ IF pc = "suffix" /\ cur.slot_idx = k
                 THEN slots[k].smpl.alive /\ ~slots[k].active
                 ELSE slots[k].smpl.alive <=> slots[k].active
              /\ slots[k].active => Len(slots[k].smpl.hist) = slots[k].n_decoded
              /\ ~slots[k].smpl.alive => slots[k].smpl = NullSampler
        /\ Cardinality({ k \in DOMAIN slots : slots[k].smpl.alive })
              = active_clients + (IF pc = "suffix" THEN 1 ELSE 0)

(* C24 witness: a slot finished a prompt it had sampled for and was        *)
(* released, another slot is active with a sampler that accepted a token   *)
C24_Witness ==
    /\ InMainLoop /\ pc = "assemble" /\ seq_capacity = 2
    /\ ~slots[0].active /\ slots[0].smpl = NullSampler
    /\ obs.steps[1] > 0 /\ obs.writes[1] = 1
    /\ slots[1].active /\ slots[1].smpl.alive /\ Len(slots[1].smpl.hist) = 1

(* C25: when generate_parallel returns, with success or with an error      *)
(* after a fatal decode in the main loop, every slot has been released: no *)
(* sampler created during the call is still allocated.                     *)
C25_CleanupBeforeReturn ==
    \A c \in ParallelCalls :
        log[c].status \in {"Success", "Error"} => log[c].obs.smpl_left = {}

(* C26: a submission (the prefix, a suffix, a generation batch) starts at  *)
(* window 0 with the cap max(1, min(512, n_batch)); a positive return code *)
(* received at a cap above 1 halves the cap, floored at 1, and the window  *)
(* at the same start index is submitted again; an accepted window leaves   *)
(* the cap as it is; within a submission the cap never grows.  The return  *)
(* code is the one the scripted runtime gives for the window.              *)
C26_ChunkCapHalving ==
    [][ LET Sub == {"prefix", "suffix", "gen"}
        IN /\ (pc \notin (Sub \cup {"sample"}) /\ pc' \in Sub) =>
                 /\ local_cap' = Max(1, Min(512, cfg.n_batch))
                 /\ start' = 0
           /\ (pc \in (Sub \cup {"sample"}) /\ pc' \in (Sub \cup {"sample"})) =>
                 local_cap' <= local_cap
           /\ pc = "sample" /\ pc' = "gen" =>
                 local_cap' = local_cap /\ batch' = batch
           /\ (pc \in Sub /\ start < Len(batch)) =>
                 LET ret == DetCode(Window)
                 IN /\ (ret > 0 /\ local_cap > 1) =>
                          /\ local_cap' = Max(1, local_cap \div 2)
                          /\ local_cap' < local_cap
                          /\ start' = start /\ batch' = batch /\ pc' = pc
                          /\ kv' = kv
                    /\ (ret = 0 /\ pc' \in (Sub \cup {"sample"})) =>
                          local_cap' = local_cap /\ batch' = batch ]_vars

(* C26 witness: a submission of two tokens whose cap was halved from 4 to  *)
(* 2 and from 2 to 1; its first window was accepted and the second is      *)
(* submitted at cap 1                                                      *)
C26_Witness ==
    /\ call.op = "parallel" /\ pc \in {"prefix", "suffix", "gen"}
    /\ cfg.n_batch = 4 /\ Len(batch) = 2
    /\ start = 1 /\ local_cap = 1
    /\ dynamic_cache_miss >= 2

(* C27: in every state of a submission the rows of the batch accepted by   *)
(* the runtime are the rows before start (during sampling: those up to the *)
(* end of the decoded window), each accepted once; an accepted window is   *)
(* the min(cap, remaining) rows from start on; and a submission that ends  *)
(* successfully has had every row of its batch accepted exactly once.      *)
C27_EveryTokenOnce ==
    [][ LET AccUpTo(n) == [ j \in 1..Len(batch) |-> IF j <= n THEN 1 ELSE 0 ]
            Sub == {"prefix", "suffix", "gen"}
        IN /\ pc \in Sub => obs.acc = AccUpTo(start)
           /\ pc = "sample" => obs.acc = AccUpTo(start + cur.win_n)
           /\ (pc \in Sub /\ obs'.acc # obs.acc) =>
                 obs'.acc = AccUpTo(start + Min(local_cap, Len(batch) - start))
           /\ (pc = "prefix" /\ prefix_ready') =>
                 /\ obs'.acc = AccUpTo(Len(batch))
                 /\ Len(batch) = shared_prefix_len
           /\ (pc = "suffix" /\ pc' # "suffix" /\ slots'[cur.slot_idx].active) =>
                 /\ obs'.acc = AccUpTo(Len(batch))
                 /\ Len(batch) = Len(slots[cur.slot_idx].suffix_tokens)
           /\ (pc = "gen" /\ pc' = "reassign" /\ decode_success') =>
                 /\ obs.acc = AccUpTo(Len(batch))
                 /\ Len(batch) = Len(batch_slots) /\ Len(batch) > 0 ]_vars

(* C27 witness: a suffix of two rows whose first row was accepted in a     *)
(* window of one after the cap was halved; the second row is next          *)
C27_Witness ==
    /\ call.op = "parallel" /\ pc = "suffix"
    /\ Len(batch) = 2 /\ start = 1 /\ local_cap = 1
    /\ obs.acc = <<1, 0>>

(* C28: a submission absorbs at most floor(log2(initial cap)) refusals,    *)
(* and dynamic_cache_miss grows by one with each of them and not           *)
(* otherwise; a negative return code, or a non-zero one received at cap 1, *)
(* ends the submission as failed in that step (the prefix is given up, the *)
(* prompt of the suffix gets its error result, the generation batch is     *)
(* marked failed); and every submission comes to an end whatever codes the *)
(* runtime returns.                                                        *)
C28_SubmissionTerminates ==
    /\ [][ LET Sub == {"prefix", "suffix", "gen"}
               Log2Floor(c) == CHOOSE k \in 0..9 : 2^k <= c /\ c < 2^(k + 1)
               Decoding == pc \in Sub /\ start < Len(batch)
               Fatal == obs'.ret < 0 \/ (obs'.ret > 0 /\ local_cap = 1)
           IN /\ pc' \in (Sub \cup {"sample"}) =>
                    obs'.absorbed <= Log2Floor(Max(1, Min(512, cfg.n_batch)))
              /\ (Decoding /\ dynamic_cache_miss < MaxMiss) =>
                    dynamic_cache_miss' - dynamic_cache_miss = obs'.absorbed - obs.absorbed
              /\ (pc \in (Sub \cup {"sample"}) /\ ~Decoding /\ pc' # "idle") =>
                    dynamic_cache_miss' = dynamic_cache_miss
              /\ (Decoding /\ obs'.absorbed # obs.absorbed) =>
                    obs'.ret > 0 /\ local_cap > 1 /\ pc' = pc
              /\ (Decoding /\ pc = "prefix" /\ Fatal) =>
                    pc' = "setup" /\ ~prefix_ready' /\ obs'.prefix_fail # "none"
              /\ (Decoding /\ pc = "suffix" /\ Fatal) =>
                    /\ pc' = "assign"
                    /\ IsSentinel(final_responses'[slots[cur.slot_idx].global_index + 1])
                    /\ ~slots'[cur.slot_idx].active
              /\ (Decoding /\ pc = "gen" /\ Fatal) =>
                    pc' = "reassign" /\ ~decode_success' /\ obs'.gen_fail # "none" ]_vars
    /\ (pc \in {"prefix", "suffix", "gen", "sample"})
           ~> (pc \notin {"prefix", "suffix", "gen", "sample"})

(* C28 witness: with the initial cap 4 a submission absorbed two refusals  *)
(* and then got a positive code at cap 1                                   *)
C28_Witness ==
    /\ call.op = "parallel" /\ cfg.n_batch = 4
    /\ obs.absorbed = 2 /\ obs.ret > 0
    /\ local_cap = 1 /\ dynamic_cache_miss = 2
    /\ (obs.prefix_fail = "soft" \/ obs.gen_fail = "soft" \/ obs.soft_suffix # {})

(* C29: with max_tokens > 0, in generate_parallel a slot that samples has  *)
(* appended the text of exactly its n_decoded <= max_tokens earlier        *)
(* tokens; at the sampling step at which n_decoded has reached max_tokens  *)
(* the slot is finalised with the cleaned response as it was before the    *)
(* token of that step, so a prompt has at most max_tokens + 1 sampling     *)
(* steps; a slot that goes on has appended the text of the token. In       *)
(* generate a token is sampled only while fewer than max_tokens were, and  *)
(* the round that finds max_tokens of them returns the text.               *)
C29_AtMostMaxTokens ==
    [][ /\ (SamplingStepTaken /\ inp.max_tokens > 0) =>
              LET k == obs'.last.slot_idx
                  g == obs'.last.g
                  slot == slots[k]
                  h == slot.smpl.hist
                  Text[i \in 0..Len(h)] ==
                      IF i = 0 THEN <<>> ELSE Text[i - 1] \o common_token_to_piece(h[i])
              IN /\ obs'.steps[g + 1] <= inp.max_tokens + 1
                 /\ obs'.steps[g + 1] = slot.n_decoded + 1
                 /\ slot.n_decoded = Len(h) /\ Len(h) <= inp.max_tokens
                 /\ slot.response = Text[Len(h)]
                 /\ (slot.n_decoded >= inp.max_tokens /\ obs'.last.tok # ThrowTok) =>
                        /\ ~slots'[k].active
                        /\ obs'.writes[g + 1] = 1
                        /\ final_responses'[g + 1] = clean_response_text(slot.response)
                 /\ slots'[k].active =>
                        /\ slot.n_decoded < inp.max_tokens
                        /\ slots'[k].n_decoded = slot.n_decoded + 1
                        /\ slots'[k].response =
                               slot.response \o common_token_to_piece(obs'.last.tok)
        /\ (pc = "gloop" /\ inp.max_tokens > 0) =>
              /\ gen.i <= inp.max_tokens /\ Len(gen.smpl.hist) = gen.i
              /\ gen.i >= inp.max_tokens =>
                    /\ pc' = "idle" /\ kv' = kv
                    /\ log'[Len(log')].status = "Success"
                    /\ log'[Len(log')].results = <<gen.generated_text>>
              /\ pc' = "gloop" => gen.i < inp.max_tokens /\ gen'.i = gen.i + 1 ]_vars

(* C29 witness: a prompt was finalised at its sampling step max_tokens + 1 *)
(* by a token that is no end of generation; its result holds text          *)
C29_Witness ==
    /\ pc = "sample" /\ call.op = "parallel" /\ inp.max_tokens > 0
    /\ obs.last.g >= 0
    /\ obs.steps[obs.last.g + 1] = inp.max_tokens + 1
    /\ obs.last.tok # ThrowTok /\ ~llama_vocab_is_eog(obs.last.tok)
    /\ obs.writes[obs.last.g + 1] = 1
    /\ ~slots[obs.last.slot_idx].active
    /\ final_responses[obs.last.g + 1] # <<>>

(* C30: a generation batch has exactly one row per active slot, in slot    *)
(* order, and the slot's i_batch is the index of its row; a slot is        *)
(* sampled only when its row is in the window that was just decoded        *)
(* successfully, from the logits row i_batch - start of that window, after *)
(* every slot of the batch with a smaller index and before every slot with *)
(* a larger one, and its i_batch is -1 afterwards (so at most once per     *)
(* iteration); when a window is not decoded the slots of its rows and of   *)
(* the rows after it are left unsampled, and after a fully decoded batch   *)
(* every slot has i_batch = -1.                                            *)
C30_OneRowPerSlotInOrder ==
    [][ /\ pc = "assemble" =>
              LET act == { k \in DOMAIN slots : slots[k].active }
                  Below(k) == Cardinality({ m \in act : m < k })
              IN IF pc' = "gen"
                 THEN /\ Len(batch') = Cardinality(act) /\ Len(batch_slots') = Len(batch')
                      /\ \A k \in act :
                            /\ ~slots[k].failed
                            /\ slots'[k].i_batch = Below(k)
                            /\ batch_slots'[Below(k) + 1] = k
                            /\ batch'[Below(k) + 1].seq = slots[k].seq_id
                            /\ batch'[Below(k) + 1].tok = slots'[k].sampled
                      /\ \A k \in DOMAIN slots \ act : slots'[k].i_batch = 0 - 1
                 ELSE act = {}
        /\ (pc = "sample" /\ cur'.s_j # cur.s_j) =>
              LET k == batch_slots[cur'.s_j]
                  slot == slots[k]
                  InBatch == { batch_slots[j] : j \in 1..Len(batch_slots) }
              IN /\ obs'.last.slot_idx = k
                 /\ slot.active /\ ~slot.failed /\ decode_success
                 /\ slot.i_batch >= start
                 /\ slot.i_batch < start + Min(local_cap, Len(batch) - start)
                 /\ obs.acc[slot.i_batch + 1] = 1
                 /\ batch[slot.i_batch + 1].seq = slot.seq_id
                 /\ Len(logits) = Min(local_cap, Len(batch) - start)
                 /\ obs'.last.tok \in SampleOutcomes(slot.smpl, logits[slot.i_batch - start + 1])
                 /\ slots'[k].i_batch = 0 - 1
                 /\ \A m \in InBatch :
                       /\ m < k => slots[m].i_batch = 0 - 1
                       /\ m > k => /\ slots[m].i_batch > slot.i_batch
                                   /\ slots'[m] = slots[m]
        /\ (pc = "gen" /\ pc' = "reassign") =>
              IF decode_success'
              THEN \A k \in DOMAIN slots : slots[k].i_batch = 0 - 1
              ELSE /\ slots' = slots
                   /\ \A j \in (start + 1)..Len(batch) :
                         /\ slots[batch_slots[j]].i_batch = j - 1
                         /\ obs'.acc[j] = 0 ]_vars

(* C30 witness: of a batch of two rows the first window, of one row, was   *)
(* decoded and its slot sampled; the second window was not decoded and its *)
(* slot keeps its row index                                                *)
C30_Witness ==
    /\ pc = "reassign" /\ call.op = "parallel" /\ ~decode_success
    /\ Len(batch) = 2 /\ start = 1
    /\ obs.acc = <<1, 0>>
    /\ obs.last.slot_idx = batch_slots[1]
    /\ slots[batch_slots[1]].i_batch = 0 - 1
    /\ slots[batch_slots[2]].i_batch = 1 /\ slots[batch_slots[2]].active

(* C31: a slot that passes the admission checks of assign_next_prompt has  *)
(* prefix_len = shared_prefix_len when prefix_ready holds and 0 when it    *)
(* does not; after the copy of seq-id 0 the rows under the slot's seq-id   *)
(* are exactly the first prefix_len tokens of the slot's own prompt at the *)
(* positions 0 .. prefix_len - 1, and the suffix batch holds the rest of   *)
(* the prompt from position prefix_len on.                                 *)
C31_PrefixLenIsShared ==
    [][ (pc = "assign" /\ next_prompt_idx < n_prompts
           /\ (pc' = "suffix" \/ slots'[cur.slot_idx].active)) =>
            LET s == slots'[cur.slot_idx]
                toks == prompt_tokens_all[next_prompt_idx + 1]
                L == IF prefix_ready THEN shared_prefix_len ELSE 0
            IN /\ s.prefix_len = L /\ L <= Len(toks)
               /\ SeqRows(kv', s.seq_id) =
                      { [seq |-> s.seq_id, pos |-> i - 1, tok |-> toks[i]] : i \in 1..L }
               /\ pc' = "suffix" =>
                      /\ Len(batch') = Len(toks) - L
                      /\ \A j \in 1..Len(batch') :
                            /\ batch'[j].pos = L + j - 1
                            /\ batch'[j].tok = toks[L + j]
                            /\ batch'[j].seq = s.seq_id ]_vars

(* C31 witness: with a shared prefix in place a slot got the second of two *)
(* prompts; the prefix is under its seq-id and its suffix is to be decoded *)
C31_Witness ==
    /\ pc = "suffix" /\ call.op = "parallel" /\ call.n_prompts = 2
    /\ prefix_ready /\ shared_prefix_len >= 1 /\ start = 0
    /\ slots[cur.slot_idx].global_index = 1
    /\ slots[cur.slot_idx].prefix_len = shared_prefix_len
    /\ Cardinality(SeqRows(kv, slots[cur.slot_idx].seq_id)) = shared_prefix_len
    /\ batch[1].pos = shared_prefix_len

C33_SharedPrefixIsLongestCommon ==
    [][ (pc = "idle" /\ call'.op = "parallel" /\ call'.share) =>
            LET toks == prompt_tokens_all'
                N == Len(toks)
                Agree(L) == \A i \in 1..N :
                                /\ L <= Len(toks[i])
                                /\ SubSeq(toks[i], 1, L) = SubSeq(toks[1], 1, L)
            IN /\ N = call'.n_prompts /\ N >= 1
               /\ \A i \in 1..N : toks[i] = helper_tokenize(inp.prompts[i])
               /\ Agree(shared_prefix_len')
               /\ \A L \in 0..Len(toks[1]) : Agree(L) => L <= shared_prefix_len'
               /\ N = 1 => shared_prefix_len' = Len(toks[1])
               /\ N >= 2 => \A i \in 1..N : shared_prefix_len' <= Len(toks[i]) ]_vars

(* C33 witness: two prompts of two tokens that agree on the first token    *)
(* and differ on the second have the shared prefix length 1                *)
C33_Witness ==
    /\ call.op = "parallel" /\ call.share /\ call.n_prompts = 2
    /\ Len(prompt_tokens_all[1]) = 2 /\ Len(prompt_tokens_all[2]) = 2
    /\ prompt_tokens_all[1][1] = prompt_tokens_all[2][1]
    /\ prompt_tokens_all[1][2] # prompt_tokens_all[2][2]
    /\ shared_prefix_len = 1

(* C34: in generate, the round in which the last seven sampled tokens,     *)
(* the new one included, equal one of the two tracked control sequences    *)
(* ends the call with Success without decoding the seventh token (the KV   *)
(* memory and the logits stay), and the returned text is the text of the   *)
(* tokens sampled before the first of the seven: neither the seventh token *)
(* nor the six before it are in it.                                        *)
C34_GenerateRetractsSix ==
    [][ LET t == ScriptSample(gen.smpl)
            h == Append(gen.smpl.hist, t)
            n == Len(h)
            Text[i \in 0..n] ==
                IF i = 0 THEN <<>> ELSE Text[i - 1] \o common_token_to_piece(h[i])
        IN (/\ pc = "gloop" /\ rt.mode = "script" /\ gen.i < inp.max_tokens
            /\ n >= 7
            /\ SubSeq(h, n - 6, n) \in
                   { <<27, 91, 68, 354, 851, 91, 29>>, <<27, 91, 408, 8932, 851, 91, 29>> }) =>
               /\ gen.generated_text = Text[n - 1]
               /\ pc' = "idle"
               /\ kv' = kv /\ logits' = logits
               /\ log'[Len(log')].op = "generate"
               /\ log'[Len(log')].status = "Success"
               /\ log'[Len(log')].results = << Text[n - 7] >> ]_vars

(* C34 witness: generate sampled an ordinary token and then the seven      *)
(* tokens of "<|eot_id|>"; it returned the text of the ordinary token      *)
C34_Witness ==
    /\ rt.mode = "script" /\ rt.script = <<1>> \o eot_sequence
    /\ inp.max_tokens = 8
    /\ Len(log) >= 1 /\ log[1].op = "generate" /\ log[1].status = "Success"
    /\ log[1].results = << common_token_to_piece(1) >>
    /\ Cardinality(log[1].kv_in) = 0
    /\ Cardinality(SeqRows(kv, 0)) >= Len(helper_tokenize(inp.prompts[1])) + 7

(* C35: from the step in which a generation-batch submission has failed to *)
(* the return of the call no prompt is admitted (next_prompt_idx stays),   *)
(* no suffix is decoded, no row is added to the KV memory by a decode or a *)
(* copy, and no sampler is created.                                        *)
C35_NoWorkAfterBatchFailure ==
    [][ (call.op = "parallel" /\ InMainLoop /\ ~decode_success) =>
            /\ kv' \subseteq kv
            /\ pc' # "idle" =>
                  /\ next_prompt_idx' = next_prompt_idx
                  /\ pc' # "suffix"
                  /\ \A k \in DOMAIN slots : slots'[k].smpl.alive => slots[k].smpl.alive ]_vars

(* C36: every seq-id of a row the engine submits or holds in the KV memory *)
(* is in 0 .. n_seq_max - 1 of the context, and the seq-ids that hold rows *)
(* at the same time are at most n_seq_max.                                 *)
C36_SeqIdsWithinContext ==
    call.op = "parallel" =>
        /\ \A j \in 1..Len(batch) : batch[j].seq \in 0..(cfg.n_seq_max - 1)
        /\ \A r \in kv : r.seq \in 0..(cfg.n_seq_max - 1)
        /\ Cardinality({ r.seq : r \in kv }) <= cfg.n_seq_max

(* C37: every row that generate_parallel submits for a slot, and every row *)
(* the KV memory holds, has a position smaller than n_ctx.                 *)
C37_PositionsBelowContext ==
    call.op = "parallel" =>
        /\ \A j \in 1..Len(batch) : batch[j].pos < cfg.n_ctx
        /\ \A r \in kv : r.pos < cfg.n_ctx

(* C38: when assign_next_prompt takes a prompt for a slot, first use or    *)
(* reuse, the KV memory holds no row under the slot's seq-id, and after    *)
(* the admission the rows under it are copies of rows of seq-id 0 and      *)
(* nothing else: no row written for an earlier prompt of the slot is left. *)
C38_SlotSeqEmptyAtAssign ==
    [][ (pc = "assign" /\ next_prompt_idx < n_prompts) =>
            LET seq == cur.slot_idx + 1
            IN /\ SeqRows(kv, seq) = {}
               /\ \A r \in SeqRows(kv', seq) :
                     /\ prefix_ready
                     /\ [seq |-> 0, pos |-> r.pos, tok |-> r.tok] \in kv ]_vars

(* C38 witness: the only slot served prompt 0 through a sampling step and  *)
(* was finalised; it now holds prompt 1, and the rows under its seq-id are *)
(* the copy of the shared prefix                                           *)
C38_Witness ==
    /\ pc = "suffix" /\ call.op = "parallel" /\ start = 0
    /\ cfg.n_seq_max = 1 /\ call.n_prompts = 2
    /\ slots[0].global_index = 1
    /\ obs.steps[1] >= 1 /\ obs.writes[1] = 1 /\ obs.failed = {}
    /\ prefix_ready
    /\ Cardinality(SeqRows(kv, 1)) = shared_prefix_len /\ shared_prefix_len >= 1

(* C39 as stated: no result of generate_parallel that is not an error      *)
(* sentinel holds an occurrence of one of the eleven markers.              *)
C39_NoMarkerInResult ==
    InMainLoop =>
        \A i \in 1..Len(final_responses) :
            ~IsSentinel(final_responses[i]) =>
                \A m \in 1..11 : StrFind(final_responses[i], stop_markers[m], 0) = NPOS

(* C39: the result stored for a slot that a sampling step finalises is the *)
(* cleaned response, and it holds no occurrence of a marker of the list,   *)
(* nested occurrences included, whenever five passes over the list are     *)
(* enough, that is, when a sixth pass over the text of the fifth would     *)
(* erase nothing.                                                          *)
C39_CleanedUnlessCapHit ==
    [][ (SamplingStepTaken /\ obs'.last.tok # ThrowTok
           /\ ~slots'[obs'.last.slot_idx].active) =>
            LET k == obs'.last.slot_idx
                g == obs'.last.g
                tok == obs'.last.tok
                raw == IF StopBeforeAppend(slots[k], tok) THEN slots[k].response
                       ELSE slots[k].response \o common_token_to_piece(tok)
                out == final_responses'[g + 1]
            IN /\ out = clean_response_text(raw)
               /\ \A t1 \in { CleanupOneRound(raw, 0) } :
                  \A t2 \in { CleanupOneRound(t1, 1) } :
                  \A t3 \in { CleanupOneRound(t2, 2) } :
                  \A t4 \in { CleanupOneRound(t3, 3) } :
                  \A t5 \in { CleanupOneRound(t4, 4) } :
                     CleanupOneRound(t5, 5) = t5 =>
                        \A m \in 1..Len(stop_markers) :
                            StrFind(out, stop_markers[m], 0) = NPOS ]_vars

(* C39 witness: the response "<|end<|end|>|>", a marker inside a marker,   *)
(* was cleaned to the empty result                                         *)
C39_Witness ==
    /\ InMainLoop /\ rt.mode = "script" /\ rt.script = NestedEnd(2)
    /\ obs.last.g >= 0 /\ obs.last.tok = eos_token
    /\ obs.steps[obs.last.g + 1] = 11
    /\ obs.last.response = Pieces(NestedEnd(2))
    /\ obs.writes[obs.last.g + 1] = 1
    /\ final_responses[obs.last.g + 1] = <<>>

(* ---------------------- batching on the R side ------------------------- *)
(* what generate / generate_parallel hands back for one prompt; the chunk  *)
(* loop only moves these values, so the prompt itself stands for its text  *)
Generated(p) == <<"out", p>>

(* the chunk loop with the end of a chunk one index too far *)
RECURSIVE BatchesLoopOneTooFar(_, _, _, _)
BatchesLoopOneTooFar(prompts, batch_size, idx, acc) ==
    LET n == Len(prompts)
    IN IF ~(idx <= n) THEN acc
       ELSE LET end == Min(idx + batch_size, n)
                batch_prompts == SubSeq(prompts, idx, end)
                chunk == [ j \in 1..Len(batch_prompts) |-> Generated(batch_prompts[j]) ]
            IN BatchesLoopOneTooFar(prompts, batch_size, end + 1,
                   [ outputs |-> [ i \in 1..n |-> IF i \in idx..end THEN chunk[i - idx + 1]
                                                  ELSE acc.outputs[i] ],
                     chunks |-> Append(acc.chunks, [ j \in 1..(end - idx + 1) |-> idx + j - 1 ]) ])

(* .generate_in_batches, the while loop: end <- min(idx + batch_size - 1,  *)
(* n), the chunk prompts[idx:end] is generated (by generate_parallel or    *)
(* prompt by prompt by generate, both in prompt order), stored at          *)
(* outputs[idx:end], and idx <- end + 1. acc.chunks logs the index ranges  *)
(* in the order they were processed                                        *)
RECURSIVE generate_in_batches_loop(_, _, _, _)
generate_in_batches_loop(prompts, batch_size, idx, acc) ==
    LET n == Len(prompts)
    IN IF ~(idx <= n) THEN acc
       ELSE LET end == Min(idx + batch_size - 1, n)
                batch_prompts == SubSeq(prompts, idx, end)
                chunk == [ j \in 1..Len(batch_prompts) |-> Generated(batch_prompts[j]) ]
            IN generate_in_batches_loop(prompts, batch_size, end + 1,
                   [ outputs |-> [ i \in 1..n |-> IF i \in idx..end THEN chunk[i - idx + 1]
                                                  ELSE acc.outputs[i] ],
                     chunks |-> Append(acc.chunks, [ j \in 1..(end - idx + 1) |-> idx + j - 1 ]) ])

(* .generate_in_batches: outputs <- character(n), idx <- 1, the loop *)
generate_in_batches(prompts, batch_size) ==
    generate_in_batches_loop(prompts, batch_size, 1,
        [ outputs |-> [ i \in 1..Len(prompts) |-> "" ], chunks |-> <<>> ])

(* the capacity of one backend call as the batching test computes it *)
per_call_capacity(ctx_seq_max) ==
    IF ctx_seq_max <= 1 THEN 1 ELSE Max(1, ctx_seq_max - 1)

(* split(idx_all, ceiling(idx_all / per_call_capacity)): the groups in the *)
(* order of their key, each with its indices ascending                     *)
split_batches(n_idx, capacity) ==
    LET key(i) == (i + capacity - 1) \div capacity
        keys == { key(i) : i \in 1..n_idx }
        group(g) == { i \in 1..n_idx : key(i) = g }
        lowest(g) == CHOOSE i \in group(g) : \A j \in group(g) : i <= j
    IN [ g \in 1..Cardinality(keys) |->
            [ j \in 1..Cardinality(group(g)) |-> lowest(g) + j - 1 ] ]

====
